---- MODULE Spec2Model ----
(***************************************************************************)
(* Test-case generation orchestrator (backend/app/services/ai):            *)
(* OpenAIService.generate_test_cases with its retry loop, quality gate and *)
(* enhanced retry, the ResponseParser and the TokenTracker.                *)
(*                                                                         *)
(* Conventions.  Python None is the string None.  A confidence score is    *)
(* the exact rational [num, den] of the float the code computes; scores    *)
(* and thresholds are compared by cross-multiplication.  A quality         *)
(* threshold is given in hundredths.  A slept delay is counted in units of *)
(* 1/TimeScale second, so that the jittered delay is an integer.           *)
(***************************************************************************)
EXTENDS Integers, Sequences, FiniteSets, TLC

(***************************************************************************)
(* Bounds of the model                                                     *)
(***************************************************************************)
\* random.random() is sampled as j/JitterSteps for j in 0..JitterSteps-1
JitterSteps == 2
\* concurrent track_usage calls on one tracker
MaxTasks == 3
\* test case objects in a JSON payload given to the parser on its own
MaxCases == 3
\* personas of a context given to _adjust_generation_parameters on its own
MaxPersonas == 4

(***************************************************************************)
(* Program constants                                                       *)
(***************************************************************************)
max_retries == 3
base_delay == 1
max_delay == 60
exponential_base == 2
rate_limit_base_delay == 60
OPENAI_MAX_TOKENS == 4000
MaxTokensCap == 6000
\* temperatures in hundredths
OPENAI_TEMPERATURE == 10
quality_focused_temperature == 10
creativity_temperature == 30
EnhancedTemperatureStep == 10
EnhancedTemperatureCap == 50
model == "gpt-4-turbo-preview"

None == "None"
TimeScale == 2 * JitterSteps

Min(a, b) == IF a < b THEN a ELSE b
Max(a, b) == IF a > b THEN a ELSE b

RECURSIVE Pow(_, _)
Pow(b, n) == IF n = 0 THEN 1 ELSE b * Pow(b, n - 1)

\* dict.get(key, default)
Get(d, k, default) == IF k \in DOMAIN d THEN d[k] ELSE default

(***************************************************************************)
(* Strings: str.lower() and the substring test  kw in text                 *)
(***************************************************************************)
UpperCase == <<"A","B","C","D","E","F","G","H","I","J","K","L","M",
               "N","O","P","Q","R","S","T","U","V","W","X","Y","Z">>
LowerCase == <<"a","b","c","d","e","f","g","h","i","j","k","l","m",
               "n","o","p","q","r","s","t","u","v","w","x","y","z">>

LowerChar(c) ==
    IF \E i \in 1..26 : UpperCase[i] = c
    THEN LowerCase[CHOOSE i \in 1..26 : UpperCase[i] = c]
    ELSE c

\* s.lower(), the two halves of the string lowered in turn
RECURSIVE Lower(_)
Lower(s) ==
    IF Len(s) = 0 THEN ""
    ELSE IF Len(s) = 1 THEN LowerChar(s)
    ELSE Lower(SubSeq(s, 1, Len(s) \div 2)) \o Lower(SubSeq(s, Len(s) \div 2 + 1, Len(s)))

Contains(text, kw) ==
    \E i \in 1..(Len(text) - Len(kw) + 1) : SubSeq(text, i, i + Len(kw) - 1) = kw

(***************************************************************************)
(* ResponseParser (response_parser.py)                                     *)
(*                                                                         *)
(* A completion's content is None or a text.  A text is modelled by what   *)
(* _extract_json and _split_into_test_sections make of it: json.found says *)
(* whether a JSON object was decoded, json.data is that object (a function *)
(* from its keys), and sections are the text sections with the groups the  *)
(* field patterns match in each.                                           *)
(***************************************************************************)
valid_classifications == {"manual", "api_automation", "ui_automation"}
valid_priorities == {"high", "medium", "low"}
valid_types == {"functional", "integration", "boundary", "negative", "performance", "security"}

\* one element of tc_data['test_steps'] (lines 173-187); yields 0 or 1 steps
NormalizeStep(step, i) ==
    IF step.kind = "dict"
    THEN << [step_number     |-> Get(step.fields, "step_number", i),
             action          |-> Get(step.fields, "action", ""),
             expected_result |-> Get(step.fields, "expected_result", ""),
             test_data       |-> Get(step.fields, "test_data", "")] >>
    ELSE IF step.kind = "str"
    THEN << [step_number |-> i, action |-> step.text,
             expected_result |-> "", test_data |-> ""] >>
    ELSE << >>

RECURSIVE NormalizeSteps(_, _)
NormalizeSteps(steps, i) ==
    IF i > Len(steps) THEN << >>
    ELSE NormalizeStep(steps[i], i) \o NormalizeSteps(steps, i + 1)

\* pydantic rejects a test case whose estimated_duration is not an integer
DefaultDuration == [is_int |-> TRUE, n |-> 10]

_parse_test_case_data(tc) ==
    LET dur == Get(tc, "estimated_duration", DefaultDuration)
    IN  IF ~dur.is_int
        THEN [raised |-> TRUE,
              message |-> "estimated_duration: value is not a valid integer"]
        ELSE [raised |-> FALSE,
              value |-> [title                 |-> Get(tc, "title", "Untitled Test Case"),
                         description           |-> Get(tc, "description", ""),
                         prerequisites         |-> Get(tc, "prerequisites", << >>),
                         test_steps            |-> IF "test_steps" \in DOMAIN tc
                                                   THEN NormalizeSteps(tc["test_steps"], 1)
                                                   ELSE << >>,
                         expected_final_result |-> Get(tc, "expected_final_result", ""),
                         classification        |-> Get(tc, "classification", "manual"),
                         priority              |-> Get(tc, "priority", "medium"),
                         test_type             |-> Get(tc, "test_type", "functional"),
                         estimated_duration    |-> dur.n,
                         tags                  |-> Get(tc, "tags", << >>),
                         persona               |-> Get(tc, "persona", None)]]

\* the loop of lines 142-147 (prefix "") and of lines 153-159 (persona prefix)
RECURSIVE ParseCaseList(_, _, _, _)
ParseCaseList(list, i, persona, acc) ==
    IF i > Len(list) THEN acc
    ELSE LET r == _parse_test_case_data(list[i])
         IN  IF r.raised
             THEN ParseCaseList(list, i + 1, persona,
                    [acc EXCEPT !.errors = Append(@,
                        IF persona = None
                        THEN "Error parsing test case: " \o r.message
                        ELSE "Error parsing persona test case for " \o persona
                             \o ": " \o r.message)])
             ELSE ParseCaseList(list, i + 1, persona,
                    [acc EXCEPT !.cases = Append(@,
                        IF persona = None THEN r.value
                        ELSE [r.value EXCEPT !.persona = persona])])

\* persona_test_cases of the JSON object: a sequence of [persona, cases]
RECURSIVE ParsePersonaGroups(_, _, _)
ParsePersonaGroups(groups, i, acc) ==
    IF i > Len(groups) THEN acc
    ELSE LET r == ParseCaseList(groups[i].cases, 1, groups[i].persona,
                                [cases |-> << >>, errors |-> acc.errors])
         IN  ParsePersonaGroups(groups, i + 1,
                [groups |-> Append(acc.groups,
                                   [persona |-> groups[i].persona, cases |-> r.cases]),
                 errors |-> r.errors])

EmptySummary == [is_dict |-> TRUE, total |-> 0]

\* lines 150-166: the persona groups are parsed after the standard cases, on
\* the same list of parsing errors
ParseJsonPersonas(json_data, std) ==
    IF "persona_test_cases" \in DOMAIN json_data
    THEN ParsePersonaGroups(json_data["persona_test_cases"], 1,
                            [groups |-> << >>, errors |-> std.errors])
    ELSE [groups |-> << >>, errors |-> std.errors]

\* mutant: the cases of the first persona group join the top-level cases
JsonParsedWithFirstGroup(json_data, std, per) ==
    [test_cases              |-> std.cases \o (IF per.groups # << >>
                                               THEN per.groups[1].cases ELSE << >>),
     persona_test_cases      |-> per.groups,
     cross_persona_scenarios |-> Get(json_data, "cross_persona_scenarios", << >>),
     summary                 |-> Get(json_data, "summary", EmptySummary),
     parsing_errors          |-> per.errors]

JsonParsed(json_data, std, per) ==
    [test_cases              |-> std.cases,
     persona_test_cases      |-> per.groups,
     cross_persona_scenarios |-> Get(json_data, "cross_persona_scenarios", << >>),
     summary                 |-> Get(json_data, "summary", EmptySummary),
     parsing_errors          |-> per.errors]

ParseJsonStandard(json_data, std) ==
    JsonParsed(json_data, std, ParseJsonPersonas(json_data, std))

_parse_json_response(json_data, parsing_errors) ==
    ParseJsonStandard(json_data,
                      IF "test_cases" \in DOMAIN json_data
                      THEN ParseCaseList(json_data["test_cases"], 1, None,
                                         [cases |-> << >>, errors |-> parsing_errors])
                      ELSE [cases |-> << >>, errors |-> parsing_errors])

_extract_classification(text) ==
    LET text_lower == Lower(text)
    IN  IF \E kw \in {"api", "endpoint", "backend", "service"} : Contains(text_lower, kw)
        THEN "api_automation"
        ELSE IF \E kw \in {"ui", "interface", "browser", "click", "navigate"} :
                   Contains(text_lower, kw)
        THEN "ui_automation"
        ELSE "manual"

_extract_priority(text) ==
    LET text_lower == Lower(text)
    IN  IF \E kw \in {"critical", "high priority", "urgent"} : Contains(text_lower, kw)
        THEN "high"
        ELSE IF \E kw \in {"low priority", "nice to have"} : Contains(text_lower, kw)
        THEN "low"
        ELSE "medium"

RECURSIVE JoinParts(_, _)
JoinParts(parts, i) ==
    IF i > Len(parts) THEN ""
    ELSE IF i = Len(parts) THEN parts[i]
    ELSE parts[i] \o " - " \o JoinParts(parts, i + 1)

\* a step line, given as its parts between the separators " - "
TextStep(parts, i) ==
    [step_number     |-> i,
     action          |-> parts[1],
     expected_result |-> IF Len(parts) >= 2 THEN JoinParts(parts, 2) ELSE "",
     test_data       |-> ""]

\* a section gives, per field pattern, whether it matched and the stripped group
_parse_text_section(section, index) ==
    LET title == IF section.title.matched THEN section.title.text
                 ELSE "Test Case " \o ToString(index)
        description == IF section.description.matched THEN section.description.text ELSE ""
        test_steps == IF section.steps.matched
                      THEN [i \in 1..Len(section.steps.lines) |->
                               TextStep(section.steps.lines[i], i)]
                      ELSE << >>
        expected == IF section.expected.matched THEN section.expected.text ELSE ""
    IN  IF title # "" \/ test_steps # << >>
        THEN << [title                 |-> title,
                 description           |-> description,
                 prerequisites         |-> << >>,
                 test_steps            |-> test_steps,
                 expected_final_result |-> expected,
                 classification        |-> _extract_classification(section.text),
                 priority              |-> _extract_priority(section.text),
                 test_type             |-> "functional",
                 estimated_duration    |-> 10,
                 tags                  |-> << >>,
                 persona               |-> None] >>
        ELSE << >>

RECURSIVE _parse_text_response(_, _)
_parse_text_response(sections, i) ==
    IF i > Len(sections) THEN << >>
    ELSE _parse_text_section(sections[i], i) \o _parse_text_response(sections, i + 1)

\* mutant: a missing title is numbered by the position among the kept cases
ValidateCaseKeptPosition(tc, i, acc) ==
    LET t1 == IF tc.title = ""
              THEN [tc EXCEPT !.title = "Test Case " \o ToString(Len(acc.cases) + 1)]
              ELSE tc
        e1 == IF t1.description = ""
              THEN Append(acc.errors, "Test case '" \o t1.title \o "' missing description")
              ELSE acc.errors
    IN  IF t1.test_steps = << >>
        THEN [cases |-> acc.cases,
              errors |-> Append(e1, "Test case '" \o t1.title \o "' missing test steps")]
        ELSE [cases |-> Append(acc.cases,
                 [t1 EXCEPT
                    !.classification = IF @ \in valid_classifications THEN @ ELSE "manual",
                    !.priority = IF @ \in valid_priorities THEN @ ELSE "medium",
                    !.test_type = IF @ \in valid_types THEN @ ELSE "functional",
                    !.estimated_duration = IF @ <= 0 THEN 10 ELSE @]),
              errors |-> e1]

\* one iteration of the validation loop, on the case at input position i
ValidateCase(tc, i, acc) ==
    LET t1 == IF tc.title = "" THEN [tc EXCEPT !.title = "Test Case " \o ToString(i)] ELSE tc
        e1 == IF t1.description = ""
              THEN Append(acc.errors, "Test case '" \o t1.title \o "' missing description")
              ELSE acc.errors
    IN  IF t1.test_steps = << >>
        THEN [cases |-> acc.cases,
              errors |-> Append(e1, "Test case '" \o t1.title \o "' missing test steps")]
        ELSE [cases |-> Append(acc.cases,
                 [t1 EXCEPT
                    !.classification = IF @ \in valid_classifications THEN @ ELSE "manual",
                    !.priority = IF @ \in valid_priorities THEN @ ELSE "medium",
                    !.test_type = IF @ \in valid_types THEN @ ELSE "functional",
                    !.estimated_duration = IF @ <= 0 THEN 10 ELSE @]),
              errors |-> e1]

RECURSIVE ValidateFrom(_, _, _)
ValidateFrom(test_cases, i, acc) ==
    IF i > Len(test_cases) THEN acc
    ELSE ValidateFrom(test_cases, i + 1, ValidateCase(test_cases[i], i, acc))

_validate_test_cases(test_cases, parsing_errors) ==
    ValidateFrom(test_cases, 1, [cases |-> << >>, errors |-> parsing_errors])

\* mutant: a step is worth 4 points instead of 5
CaseScoreFourPerStep(tc) ==
      (IF tc.title # "" /\ Len(tc.title) > 5 THEN 20 ELSE 0)
    + (IF tc.description # "" /\ Len(tc.description) > 10 THEN 15 ELSE 0)
    + (IF tc.test_steps # << >> THEN Min(30, Len(tc.test_steps) * 4) ELSE 0)
    + (IF tc.expected_final_result # "" THEN 15 ELSE 0)
    + (IF tc.classification \in valid_classifications THEN 10 ELSE 0)
    + (IF tc.priority \in valid_priorities THEN 5 ELSE 0)
    + (IF tc.test_type # "" THEN 5 ELSE 0)

CaseScore(tc) ==
      (IF tc.title # "" /\ Len(tc.title) > 5 THEN 20 ELSE 0)
    + (IF tc.description # "" /\ Len(tc.description) > 10 THEN 15 ELSE 0)
    + (IF tc.test_steps # << >> THEN Min(30, Len(tc.test_steps) * 5) ELSE 0)
    + (IF tc.expected_final_result # "" THEN 15 ELSE 0)
    + (IF tc.classification \in valid_classifications THEN 10 ELSE 0)
    + (IF tc.priority \in valid_priorities THEN 5 ELSE 0)
    + (IF tc.test_type # "" THEN 5 ELSE 0)

RECURSIVE SumScores(_, _)
SumScores(test_cases, i) ==
    IF i > Len(test_cases) THEN 0
    ELSE CaseScore(test_cases[i]) + SumScores(test_cases, i + 1)

Zero == [num |-> 0, den |-> 1]

\* mutant: the penalised total is not clamped at 0
_calculate_confidence_score_unclamped(test_cases, parsing_errors) ==
    IF test_cases = << >> THEN Zero
    ELSE [num |-> Min(Len(test_cases) * 100,
                      SumScores(test_cases, 1) - Len(parsing_errors) * 10),
          den |-> Len(test_cases) * 100]

_calculate_confidence_score(test_cases, parsing_errors) ==
    IF test_cases = << >> THEN Zero
    ELSE LET max_score == Len(test_cases) * 100
             error_penalty == Len(parsing_errors) * 10
             total_score == Max(0, SumScores(test_cases, 1) - error_penalty)
         IN  [num |-> Min(max_score, total_score), den |-> max_score]

\* mutants: the comparisons with the equal case admitted
LessOrEqual(a, b) == a.num * b.den <= b.num * a.den
AtOrBelowThreshold(c, threshold) == c.num * 100 <= threshold * c.den

\* comparison of two confidence scores, and of a score with a threshold
Less(a, b) == a.num * b.den < b.num * a.den
BelowThreshold(c, threshold) == c.num * 100 < threshold * c.den

\* the result of the except branch of parse_response (lines 98-106)
CriticalResponse(raw_response, parsing_errors, message) ==
    [test_cases              |-> << >>,
     summary                 |-> EmptySummary,
     persona_test_cases      |-> << >>,
     cross_persona_scenarios |-> << >>,
     raw_content             |-> raw_response,
     parsing_success         |-> FALSE,
     parsing_errors          |-> Append(parsing_errors, "Critical parsing error: " \o message),
     confidence_score        |-> Zero]

\* mutant: the penalty counts the errors of the parsers only, without those
\* the validation pass added
BuildParsedResponseParserErrors(raw_response, parsed, validated) ==
    IF ~parsed.summary.is_dict
    THEN CriticalResponse(raw_response, validated.errors,
                          "summary: value is not a valid dict")
    ELSE [test_cases              |-> validated.cases,
          summary                 |-> parsed.summary,
          persona_test_cases      |-> parsed.persona_test_cases,
          cross_persona_scenarios |-> parsed.cross_persona_scenarios,
          raw_content             |-> raw_response,
          parsing_success         |-> Len(validated.errors) = 0,
          parsing_errors          |-> validated.errors,
          confidence_score        |-> _calculate_confidence_score(validated.cases,
                                                                  parsed.parsing_errors)]

\* lines 80-96: the ParsedResponse built from the validated cases; a summary
\* that is not a dict makes the construction raise into the except branch
BuildParsedResponse(raw_response, parsed, validated) ==
    IF ~parsed.summary.is_dict
    THEN CriticalResponse(raw_response, validated.errors,
                          "summary: value is not a valid dict")
    ELSE [test_cases              |-> validated.cases,
          summary                 |-> parsed.summary,
          persona_test_cases      |-> parsed.persona_test_cases,
          cross_persona_scenarios |-> parsed.cross_persona_scenarios,
          raw_content             |-> raw_response,
          parsing_success         |-> Len(validated.errors) = 0,
          parsing_errors          |-> validated.errors,
          confidence_score        |-> _calculate_confidence_score(validated.cases,
                                                                  validated.errors)]

\* lines 78-96: validation, confidence and construction
ValidateParsed(raw_response, parsed) ==
    BuildParsedResponse(raw_response, parsed,
                        _validate_test_cases(parsed.test_cases, parsed.parsing_errors))

\* lines 66-76: the JSON parser when JSON was extracted, the text parser
\* otherwise; an empty JSON object is falsy, so the text parser runs
ParseContent(raw_response) ==
    IF raw_response.json.found /\ DOMAIN raw_response.json.data # {}
    THEN _parse_json_response(raw_response.json.data, << >>)
    ELSE [test_cases              |-> _parse_text_response(raw_response.sections, 1),
          persona_test_cases      |-> << >>,
          cross_persona_scenarios |-> << >>,
          summary                 |-> EmptySummary,
          parsing_errors          |-> << >>]

\* parse_response: [raised, message] when it raises, [raised, value] otherwise.
\* With content None the pattern search raises TypeError, and the except
\* branch raises in turn because raw_content must be a string.
parse_response(raw_response) ==
    IF raw_response.kind = "none"
    THEN [raised |-> TRUE, message |-> "raw_content: none is not an allowed value"]
    ELSE [raised |-> FALSE,
          value  |-> ValidateParsed(raw_response, ParseContent(raw_response))]

(***************************************************************************)
(* Exceptions.  An exception is [type, status_code, message]; str(e) is    *)
(* its message.  The classes are those the service imports from the        *)
(* completion client, with the client's class hierarchy.                   *)
(***************************************************************************)
Ancestors(type) ==
    CASE type = "RateLimitError"     -> {"RateLimitError", "APIStatusError", "APIError", "Exception"}
      [] type = "APIStatusError"     -> {"APIStatusError", "APIError", "Exception"}
      [] type = "APITimeoutError"    -> {"APITimeoutError", "APIConnectionError", "APIError", "Exception"}
      [] type = "APIConnectionError" -> {"APIConnectionError", "APIError", "Exception"}
      [] OTHER                       -> {type, "Exception"}

\* except <classes> as e
Catches(classes, e) == Ancestors(e.type) \cap classes # {}

NoException == [type |-> None, status_code |-> 0, message |-> ""]

(***************************************************************************)
(* Classifier (openai_service.py, _detect_domain and _estimate_complexity) *)
(***************************************************************************)
domain_keywords ==
    << [domain |-> "ecommerce",
        keywords |-> {"cart", "checkout", "product", "order", "payment", "shop", "buy", "purchase"}],
       [domain |-> "finance",
        keywords |-> {"payment", "transaction", "account", "balance", "banking", "credit", "loan"}],
       [domain |-> "healthcare",
        keywords |-> {"patient", "medical", "doctor", "treatment", "prescription", "health", "clinical"}],
       [domain |-> "saas",
        keywords |-> {"subscription", "tenant", "dashboard", "analytics", "configuration", "integration"}],
       [domain |-> "mobile",
        keywords |-> {"mobile", "app", "touch", "swipe", "notification", "offline", "device"}],
       [domain |-> "api",
        keywords |-> {"api", "endpoint", "service", "webhook", "integration", "json", "rest"}] >>

DomainScore(i, description_lower) ==
    Cardinality({kw \in domain_keywords[i].keywords : Contains(description_lower, kw)})

\* mutant: among the domains of the highest score the last one is returned
_detect_domain_last_of_ties(description) ==
    LET description_lower == Lower(description)
        scored == {i \in 1..Len(domain_keywords) : DomainScore(i, description_lower) > 0}
    IN  IF scored # {}
        THEN LET best == CHOOSE i \in scored :
                           \A k \in scored :
                               \/ DomainScore(k, description_lower) < DomainScore(i, description_lower)
                               \/ (DomainScore(k, description_lower) = DomainScore(i, description_lower)
                                   /\ i >= k)
             IN  domain_keywords[best].domain
        ELSE "general"

\* max(domain_scores, key=domain_scores.get): the first domain, in the order
\* of domain_keywords, among those of the highest non-zero score
_detect_domain(description) ==
    LET description_lower == Lower(description)
        scored == {i \in 1..Len(domain_keywords) : DomainScore(i, description_lower) > 0}
    IN  IF scored # {}
        THEN LET best == CHOOSE i \in scored :
                           \A k \in scored :
                               \/ DomainScore(k, description_lower) < DomainScore(i, description_lower)
                               \/ (DomainScore(k, description_lower) = DomainScore(i, description_lower)
                                   /\ i <= k)
             IN  domain_keywords[best].domain
        ELSE "general"

Whitespace == {" ", "\n", "\t"}

\* len(s.split('\n'))
CountLines(s) == 1 + Cardinality({i \in 1..Len(s) : SubSeq(s, i, i) = "\n"})

\* len(s.split()): the number of maximal runs of non-whitespace characters
\* (in_word: the character before s belongs to a word)
CountWords(s, in_word) ==
    Cardinality({i \in 1..Len(s) :
                    /\ SubSeq(s, i, i) \notin Whitespace
                    /\ IF i = 1 THEN ~in_word ELSE SubSeq(s, i - 1, i - 1) \in Whitespace})

integration_keywords == {"integrate", "api", "service", "external", "third-party", "webhook"}

\* the accumulated score, in hundredths
ComplexityScore(req) ==
    LET criteria_lines == CountLines(req.acceptance_criteria)
        description_words == CountWords(req.user_story_description, FALSE)
    IN    (IF criteria_lines > 10 THEN 30 ELSE IF criteria_lines > 5 THEN 15 ELSE 0)
        + (IF description_words > 100 THEN 20 ELSE IF description_words > 50 THEN 10 ELSE 0)
        + (IF \E kw \in integration_keywords :
                 Contains(Lower(req.user_story_description), kw) THEN 20 ELSE 0)
        + (IF Len(req.personas) > 2 THEN 15 ELSE 0)
        + (IF Len(req.business_rules) > 3 THEN 15 ELSE 0)

\* mutant: the thresholds are exclusive
_estimate_complexity_exclusive(req) ==
    IF ComplexityScore(req) > 70 THEN "complex"
    ELSE IF ComplexityScore(req) > 30 THEN "medium"
    ELSE "simple"

_estimate_complexity(req) ==
    IF ComplexityScore(req) >= 70 THEN "complex"
    ELSE IF ComplexityScore(req) >= 30 THEN "medium"
    ELSE "simple"

(***************************************************************************)
(* PromptManager (prompt_manager.py) with the default template registry    *)
(***************************************************************************)
\* a PromptTemplate, by the fields the lookup and the result use
PromptTemplate(name, domain, generation_type) ==
    [name |-> name, domain |-> domain, generation_type |-> generation_type]

\* self.templates after _load_default_templates: key -> template
DefaultTemplates ==
    [key \in {"ecommerce_standard", "finance_standard", "healthcare_standard",
              "saas_standard", "persona_based", "edge_case_focused"} |->
        CASE key = "ecommerce_standard" ->
                 PromptTemplate("E-commerce Standard Test Generation", "ecommerce", "standard")
          [] key = "finance_standard" ->
                 PromptTemplate("Finance Standard Test Generation", "finance", "standard")
          [] key = "healthcare_standard" ->
                 PromptTemplate("Healthcare Standard Test Generation", "healthcare", "standard")
          [] key = "saas_standard" ->
                 PromptTemplate("SaaS Standard Test Generation", "saas", "standard")
          [] key = "persona_based" ->
                 PromptTemplate("Persona-based Test Generation", "general", "persona_based")
          [] key = "edge_case_focused" ->
                 PromptTemplate("Edge Case Focused Test Generation", "general",
                                "edge_case_focused")]

\* self.templates[key], a KeyError when the key is absent
Lookup(templates, key) ==
    IF key \in DOMAIN templates
    THEN [raised |-> FALSE, value |-> templates[key]]
    ELSE [raised |-> TRUE, message |-> "KeyError: " \o key]

TemplateKey(domain, generation_type) == domain \o "_" \o generation_type

\* mutant: the generation-type template is tried before the domain's
\* standard template
get_optimal_template_type_first(templates, context) ==
    IF TemplateKey(context.domain, context.generation_type) \in DOMAIN templates
    THEN Lookup(templates, TemplateKey(context.domain, context.generation_type))
    ELSE IF context.generation_type \in DOMAIN templates
    THEN Lookup(templates, context.generation_type)
    ELSE IF TemplateKey(context.domain, "standard") \in DOMAIN templates
    THEN Lookup(templates, TemplateKey(context.domain, "standard"))
    ELSE Lookup(templates, "saas_standard")

get_optimal_template(templates, context) ==
    IF TemplateKey(context.domain, context.generation_type) \in DOMAIN templates
    THEN Lookup(templates, TemplateKey(context.domain, context.generation_type))
    ELSE IF TemplateKey(context.domain, "standard") \in DOMAIN templates
    THEN Lookup(templates, TemplateKey(context.domain, "standard"))
    ELSE IF context.generation_type \in DOMAIN templates
    THEN Lookup(templates, context.generation_type)
    ELSE Lookup(templates, "saas_standard")

\* add_custom_template: the template is stored under '<domain>_<type>'
add_custom_template(templates, template) ==
    [key \in DOMAIN templates \cup {TemplateKey(template.domain, template.generation_type)} |->
        IF key = TemplateKey(template.domain, template.generation_type)
        THEN template
        ELSE templates[key]]

\* the rendered prompt; heap gives the value of the context's dict
generate_prompt(context, heap) ==
    [template_name   |-> get_optimal_template(DefaultTemplates, context).value.name,
     user_prompt     |-> [title               |-> context.user_story_title,
                          description         |-> context.user_story_description,
                          acceptance_criteria |-> context.acceptance_criteria,
                          domain              |-> context.domain,
                          complexity          |-> context.complexity,
                          personas            |-> context.personas,
                          business_rules      |-> context.business_rules,
                          additional_context  |-> IF context.additional_context = 0
                                                  THEN << >>
                                                  ELSE heap[context.additional_context],
                          quality_enhancement |-> FALSE]]

(***************************************************************************)
(* Generation parameters and backoff delay (openai_service.py)             *)
(***************************************************************************)
\* the pairs (max_tokens, persona count), for up to ten personas, at which
\* the double product max_tokens * (1 + count * 0.2) is just below the exact
\* product, an integer: 2800 * 1.4 = 3919.9999999999995
DoubleProductBelow == {<< 2800, 2 >>, << 2800, 9 >>}

\* int(max_tokens * (1 + count * 0.2)) in double arithmetic (lines 378-379)
PersonaScaled(max_tokens, count) ==
    (max_tokens * (10 + 2 * count)) \div 10
    - (IF << max_tokens, count >> \in DoubleProductBelow THEN 1 ELSE 0)

_adjust_generation_parameters(context) ==
    LET temperature ==
            IF context.generation_type = "edge_case_focused" THEN creativity_temperature
            ELSE IF context.generation_type = "standard" THEN quality_focused_temperature
            ELSE OPENAI_TEMPERATURE
        by_complexity ==
            IF context.complexity = "complex"
            THEN Min((OPENAI_MAX_TOKENS * 15) \div 10, MaxTokensCap)
            ELSE IF context.complexity = "simple"
            THEN (OPENAI_MAX_TOKENS * 7) \div 10
            ELSE OPENAI_MAX_TOKENS
        max_tokens ==
            IF context.generation_type = "persona_based" /\ Len(context.personas) > 0
            THEN PersonaScaled(by_complexity, Len(context.personas))
            ELSE by_complexity
    IN  [model |-> model, max_tokens |-> max_tokens, temperature |-> temperature]

\* min(base * exponential_base ** attempt, max_delay), in seconds
PreJitterDelay(attempt, base) == Min(base * Pow(exponential_base, attempt), max_delay)

\* mutant: the delay is not capped at max_delay
UncappedRetryDelay(attempt, base, j) ==
    base * Pow(exponential_base, attempt) * (JitterSteps + j)

\* the delay slept, in units of 1/TimeScale second, when random.random()
\* returns j/JitterSteps:  delay * (0.5 + (j/JitterSteps) * 0.5)
_calculate_retry_delay(attempt, base, j) == PreJitterDelay(attempt, base) * (JitterSteps + j)

(***************************************************************************)
(* TokenUsage and TokenTracker (token_tracker.py)                          *)
(***************************************************************************)
\* prices per token in millionths of a dollar (per 1K tokens: 0.01 and 0.03 ...)
pricing ==
    [m \in {"gpt-4-turbo-preview", "gpt-4", "gpt-3.5-turbo"} |->
        CASE m = "gpt-4-turbo-preview" -> [prompt |-> 10, completion |-> 30]
          [] m = "gpt-4"               -> [prompt |-> 30, completion |-> 60]
          [] m = "gpt-3.5-turbo"       -> [prompt |-> 1, completion |-> 2]]

\* mutant: a model missing from the table is priced as gpt-4
calculate_cost_default_gpt4(m, prompt_tokens, completion_tokens) ==
    LET model_pricing == IF m \in DOMAIN pricing THEN pricing[m] ELSE pricing["gpt-4"]
    IN  prompt_tokens * model_pricing.prompt + completion_tokens * model_pricing.completion

calculate_cost(m, prompt_tokens, completion_tokens) ==
    LET model_pricing == IF m \in DOMAIN pricing THEN pricing[m]
                         ELSE pricing["gpt-4-turbo-preview"]
    IN  prompt_tokens * model_pricing.prompt + completion_tokens * model_pricing.completion

\* TokenUsage(...) with __post_init__, created on day now
TokenUsage(m, prompt_tokens, completion_tokens, total_tokens, request_id, now) ==
    [model             |-> m,
     prompt_tokens     |-> prompt_tokens,
     completion_tokens |-> completion_tokens,
     total_tokens      |-> total_tokens,
     request_id        |-> request_id,
     timestamp         |-> now,
     estimated_cost    |-> calculate_cost(m, prompt_tokens, completion_tokens)]

NewStats == [total_requests |-> 0, total_tokens |-> 0, total_cost |-> 0]

\* mutant: the averages divide by the number of requests before this one
AddToStatsEarlierCount(stats, usage) ==
    LET requests == stats.total_requests + 1
        tokens == stats.total_tokens + usage.total_tokens
        cost == stats.total_cost + usage.estimated_cost
    IN  [total_requests |-> requests,
         total_tokens   |-> tokens,
         total_cost     |-> cost,
         average_tokens_per_request |-> [num |-> tokens, den |-> Max(1, requests - 1)],
         average_cost_per_request   |-> [num |-> cost, den |-> Max(1, requests - 1)]]

\* the daily bucket after one more record; the averages are the exact
\* quotients of the totals by total_requests
AddToStats(stats, usage) ==
    LET requests == stats.total_requests + 1
        tokens == stats.total_tokens + usage.total_tokens
        cost == stats.total_cost + usage.estimated_cost
    IN  [total_requests |-> requests,
         total_tokens   |-> tokens,
         total_cost     |-> cost,
         average_tokens_per_request |-> [num |-> tokens, den |-> requests],
         average_cost_per_request   |-> [num |-> cost, den |-> requests]]

\* mutant: the day's bucket is created anew for every record
track_usage_fresh_bucket(tracker, usage) ==
    [history |-> Append(tracker.history, usage),
     daily   |-> [d \in DOMAIN tracker.daily \cup {usage.timestamp} |->
                     IF d = usage.timestamp THEN AddToStats(NewStats, usage)
                     ELSE tracker.daily[d]]]

\* track_usage on a tracker [history, daily], up to its first await
track_usage(tracker, usage) ==
    LET date_key == usage.timestamp
        daily_stats == IF date_key \in DOMAIN tracker.daily THEN tracker.daily[date_key]
                       ELSE NewStats
    IN  [history |-> Append(tracker.history, usage),
         daily   |-> [d \in DOMAIN tracker.daily \cup {date_key} |->
                         IF d = date_key THEN AddToStats(daily_stats, usage)
                         ELSE tracker.daily[d]]]

(***************************************************************************)
(* Inputs: the requests a caller passes and the completions the API returns*)
(***************************************************************************)
StepDict(fields) == [kind |-> "dict", fields |-> fields]
StepStr(text) == [kind |-> "str", text |-> text]

FullCase(title) ==
    [title                 |-> title,
     description           |-> "Pay for the cart with a saved card",
     test_steps            |-> << StepDict([action |-> "Open the cart", expected_result |-> "Cart is shown"]),
                                  StepDict([action |-> "Press pay", expected_result |-> "Payment form"]),
                                  StepStr("Confirm the payment"),
                                  StepStr("Open the orders page"),
                                  StepStr("Open the new order"),
                                  StepStr("Check the total") >>,
     expected_final_result |-> "Order is placed",
     classification        |-> "ui_automation",
     priority              |-> "high",
     test_type             |-> "functional",
     estimated_duration    |-> [is_int |-> TRUE, n |-> 15]]

\* a case scoring 50 of 100: short description, two steps, no final result
HalfCase ==
    [title       |-> "Refund order",
     description |-> "Refund",
     test_steps  |-> << StepStr("Open the order"), StepStr("Press refund") >>]

\* every field populated, one step
OneStepCase ==
    [title                 |-> "Login with password",
     description           |-> "Log in with a valid password",
     test_steps            |-> << StepDict([action |-> "Submit the form",
                                            expected_result |-> "Home page"]) >>,
     expected_final_result |-> "User is logged in",
     classification        |-> "manual",
     priority              |-> "medium",
     test_type             |-> "functional",
     estimated_duration    |-> [is_int |-> TRUE, n |-> 5]]

NoStepsCase == [title |-> "Cancel order", description |-> "Cancel an order that was placed"]

JsonContent(data) ==
    [kind |-> "text", json |-> [found |-> TRUE, data |-> data], sections |-> << >>]
TextContent(sections) ==
    [kind |-> "text", json |-> [found |-> FALSE, data |-> << >>], sections |-> sections]

ContentNone == [kind |-> "none"]
ContentFull ==
    JsonContent([test_cases |-> << FullCase("Checkout with saved card"),
                                   FullCase("Checkout with new card"),
                                   FullCase("Checkout with expired card") >>,
                 summary |-> [is_dict |-> TRUE, total |-> 3]])
ContentHalf == JsonContent([test_cases |-> << HalfCase >>])
ContentEmpty == JsonContent([test_cases |-> << >>])
ContentNoSteps == JsonContent([test_cases |-> << NoStepsCase >>])
ContentText ==
    TextContent(<< [text        |-> "Title: Login via API\nSteps:\nSend request - 200 returned\nRead body",
                    title       |-> [matched |-> TRUE, text |-> "Login via API"],
                    description |-> [matched |-> FALSE],
                    steps       |-> [matched |-> TRUE,
                                     lines |-> << <<"Send request", "200 returned">>,
                                                  <<"Read body">> >>],
                    expected    |-> [matched |-> FALSE]] >>)

\* every field populated, with a single step per case
ContentOneStep ==
    JsonContent([test_cases |-> << OneStepCase, OneStepCase, OneStepCase >>])
ContentOneFull == JsonContent([test_cases |-> << FullCase("Checkout as a guest") >>])

\* persona groups only, no top-level test_cases list: complete cases for
\* one persona, a case without steps for another
ContentPersonaOnly ==
    JsonContent([persona_test_cases |->
                    << [persona |-> "admin",
                        cases |-> << FullCase("Approve a refund as admin"),
                                     FullCase("Reject a refund as admin") >>],
                       [persona |-> "guest", cases |-> << NoStepsCase >>] >>])

Contents ==
    {ContentNone, ContentFull, ContentHalf, ContentEmpty, ContentNoSteps, ContentText,
     ContentOneStep, ContentOneFull, ContentPersonaOnly}

\* the kinds of test case objects a JSON payload is built from
\* steps that carry their own numbers, around an element that is neither
\* an object nor a string
NumberedCase ==
    [OneStepCase EXCEPT
        !.title = "Export the report",
        !.test_steps = << StepDict([step_number |-> 3, action |-> "Open reports"]),
                          [kind |-> "other"],
                          StepStr("Press export"),
                          StepDict([step_number |-> 7, action |-> "Open the file"]) >>]

ZeroDurationCase ==
    [OneStepCase EXCEPT !.title = "Reset password",
                        !.estimated_duration = [is_int |-> TRUE, n |-> 0]]
NegativeDurationCase ==
    [OneStepCase EXCEPT !.title = "Change password",
                        !.estimated_duration = [is_int |-> TRUE, n |-> 0 - 5]]
BadDurationCase ==
    [OneStepCase EXCEPT !.title = "Delete account",
                        !.estimated_duration = [is_int |-> FALSE]]

\* only steps: no title, description, result or labels
BareCase == [test_steps |-> << StepStr("Press") >>]
\* neither description nor steps
EmptyCase == [tags |-> << >>]

CaseKinds ==
    {FullCase("Checkout with saved card"), OneStepCase, NumberedCase, HalfCase,
     NoStepsCase, BareCase, EmptyCase, ZeroDurationCase, NegativeDurationCase,
     BadDurationCase}

\* the sections of a free-text response
TextSectionFull ==
    [text        |-> "Title: Search the API\nDescription: Search by keyword\nSteps:\n...",
     title       |-> [matched |-> TRUE, text |-> "Search the API"],
     description |-> [matched |-> TRUE, text |-> "Search by keyword"],
     steps       |-> [matched |-> TRUE,
                      lines |-> << <<"Open search">>, <<"Type a word", "Word is shown">>,
                                   <<"Press enter", "Results", "sorted">>, <<"Open a result">>,
                                   <<"Go back">>, <<"Clear the search">> >>],
     expected    |-> [matched |-> TRUE, text |-> "Results are listed"]]
TextSectionTitleOnly ==
    [text        |-> "Title: Urgent logout",
     title       |-> [matched |-> TRUE, text |-> "Urgent logout"],
     description |-> [matched |-> FALSE],
     steps       |-> [matched |-> FALSE],
     expected    |-> [matched |-> FALSE]]
TextSectionPlain ==
    [text        |-> "The user can click the button",
     title       |-> [matched |-> FALSE],
     description |-> [matched |-> FALSE],
     steps       |-> [matched |-> FALSE],
     expected    |-> [matched |-> FALSE]]

TextSectionKinds == {TextSectionFull, TextSectionTitleOnly, TextSectionPlain}

SeqsUpTo(S, n) == UNION {[1..k -> S] : k \in 0..n}

ContentPersonas ==
    JsonContent([persona_test_cases |->
                    << [persona |-> "admin", cases |-> << OneStepCase, BadDurationCase >>],
                       [persona |-> "guest", cases |-> << NoStepsCase >>] >>,
                 test_cases |-> << OneStepCase >>])
ContentBadSummary ==
    JsonContent([test_cases |-> << OneStepCase >>, summary |-> [is_dict |-> FALSE]])

\* the contents parse_response is applied to on its own
ParserInputs ==
    Contents \cup {ContentPersonas, ContentBadSummary}
    \cup {JsonContent([test_cases |-> list]) : list \in SeqsUpTo(CaseKinds, MaxCases)}
    \cup {TextContent(sections) : sections \in SeqsUpTo(TextSectionKinds, 2)}

\* the usage block of a completion
ApiUsages == {[prompt_tokens |-> 1200, completion_tokens |-> 800, total_tokens |-> 2000]}

\* the status codes of the API errors that are not rate-limit errors
StatusCodes == {400, 500}

\* the errors the completion call of attempt att of Calling phase ph can raise
ApiErrors(ph, att) ==
    LET call == ph \o " call " \o ToString(att + 1)
    IN  {[type |-> "RateLimitError", status_code |-> 429,
          message |-> "rate limit exceeded, " \o call],
         [type |-> "APITimeoutError", status_code |-> 0,
          message |-> "request timed out, " \o call],
         [type |-> "APIConnectionError", status_code |-> 0,
          message |-> "connection error, " \o call]}
        \cup {[type |-> "APIStatusError", status_code |-> sc,
               message |-> "status " \o ToString(sc) \o ", " \o call] :
              sc \in StatusCodes}

\* a request, with the dict objects it refers to (additional_context is 0
\* for None and otherwise the index of its dict in dicts); personas and
\* business_rules are lists, the empty list standing for None as well
RequestInputs ==
    {[request |-> [user_story_title       |-> "Checkout",
                   user_story_description |-> "Customer pays at Checkout with a saved Payment card",
                   acceptance_criteria    |-> "Given a cart\nWhen paying\nThen order is placed",
                   domain                 |-> None,
                   complexity             |-> None,
                   generation_type        |-> "standard",
                   personas               |-> << >>,
                   business_rules         |-> << >>,
                   additional_context     |-> 0,
                   max_test_cases         |-> 12,
                   quality_threshold      |-> 75],
      dicts |-> << >>],
     [request |-> [user_story_title       |-> "Transfer",
                   user_story_description |-> "Transfer money between accounts",
                   acceptance_criteria    |-> "Balance is updated",
                   domain                 |-> "finance",
                   complexity             |-> "complex",
                   generation_type        |-> "persona_based",
                   personas               |-> <<"teller", "customer", "auditor">>,
                   business_rules         |-> <<"daily limit">>,
                   additional_context     |-> 1,
                   max_test_cases         |-> 20,
                   quality_threshold      |-> 75],
      dicts |-> << [environment |-> "staging"] >>],
     [request |-> [user_story_title       |-> "Offline mode",
                   user_story_description |-> "Use the app while offline",
                   acceptance_criteria    |-> "Data is synced later",
                   domain                 |-> "mobile",
                   complexity             |-> None,
                   generation_type        |-> "edge_case_focused",
                   personas               |-> << >>,
                   business_rules         |-> << >>,
                   additional_context     |-> 1,
                   max_test_cases         |-> 8,
                   quality_threshold      |-> 50],
      dicts |-> << << >> >>]}

(***************************************************************************)
(* OpenAIService.generate_test_cases as a state machine                    *)
(***************************************************************************)
VARIABLES
    pc,                \* position of the invocation: idle, calling, sleeping,
                       \* parsing, enh_parsing, tracking, done
    request,           \* the GenerationRequest object passed by the caller
    dicts,             \* the dict objects, by reference
    entry,             \* the request and its dicts as they were on entry
    context,           \* the PromptContext object
    prompt_data,       \* the prompt of the current Calling phase
    generation_params, \* the parameters of the current Calling phase
    phase,             \* first or enhanced
    attempt,           \* loop variable of _generate_with_retry
    last_exception,    \* local of _generate_with_retry
    api_log,           \* outcomes of the completion calls of the Calling phase
    sleeps,            \* asyncio.sleep calls of the Calling phase
    raw_response,      \* content returned by the last Calling phase
    token_usage,       \* usage record returned by the first Calling phase
    enhanced_usage,    \* usage record returned by the enhanced Calling phase
    parsed_response,   \* local parsed_response of generate_test_cases
    initial_response,  \* the first parsed response
    enhanced_response, \* what _retry_with_enhanced_prompt returned
    tracker,           \* TokenTracker: _usage_history and _daily_usage
    today,             \* the calendar day of datetime.utcnow()
    returned,          \* what the invocation handed to its caller
    completed_calls,   \* completion calls that returned a completion
    tracked,           \* usage records passed to track_usage in this invocation
    enhanced_retries,  \* entries into _retry_with_enhanced_prompt
    failures,          \* the stages that raised: [phase, stage, exception]
    api_calls,         \* completion calls made in this invocation, both phases
    backoff_sleeps,    \* backoff sleeps started in this invocation, both phases
    tasks,             \* concurrent track_usage calls: [pc, usage] per task
    redis,             \* the redis store: usage records and daily hashes
    templates,         \* PromptManager.templates: key -> template
    call               \* the last call of a component made on its own:
                       \* [fn, args, result]

serviceVars == << pc, request, dicts, entry, context, prompt_data, generation_params, phase,
           attempt, last_exception, api_log, sleeps, raw_response, token_usage,
           enhanced_usage, parsed_response, initial_response, enhanced_response,
           tracker, today, returned, completed_calls, tracked, enhanced_retries,
           failures, api_calls, backoff_sleeps >>
poolVars == << tasks, redis >>
\* the variables of one invocation of generate_test_cases
invocationVars == << pc, request, dicts, entry, context, prompt_data, generation_params,
                     phase, attempt, last_exception, api_log, sleeps, raw_response,
                     token_usage, enhanced_usage, parsed_response, initial_response,
                     enhanced_response, today, returned, completed_calls, tracked,
                     enhanced_retries, failures, api_calls, backoff_sleeps >>
unitVars == << templates, call >>
vars == << serviceVars, poolVars, unitVars >>

Unset == [set |-> FALSE]
NoRedis == [client |-> FALSE, records |-> {}, daily |-> << >>]
NoCall == [fn |-> None]
Some(v) == [set |-> TRUE, value |-> v]

PromptContext(req) ==
    [domain                 |-> req.domain,
     complexity             |-> req.complexity,
     generation_type        |-> req.generation_type,
     user_story_title       |-> req.user_story_title,
     user_story_description |-> req.user_story_description,
     acceptance_criteria    |-> req.acceptance_criteria,
     additional_context     |-> req.additional_context,
     personas               |-> req.personas,
     business_rules         |-> req.business_rules]

\* the classification of lines 104-109, assigned to the request object
Classify(req) ==
    LET with_domain == [req EXCEPT !.domain =
                            IF @ = None THEN _detect_domain(req.user_story_description) ELSE @]
    IN  [with_domain EXCEPT !.complexity =
            IF @ = None THEN _estimate_complexity(with_domain) ELSE @]

_convert_parsed_test_cases(parsed_cases) ==
    [i \in 1..Len(parsed_cases) |->
        [title                 |-> parsed_cases[i].title,
         description           |-> parsed_cases[i].description,
         prerequisites         |-> parsed_cases[i].prerequisites,
         test_steps            |-> parsed_cases[i].test_steps,
         expected_final_result |-> parsed_cases[i].expected_final_result,
         classification        |-> parsed_cases[i].classification,
         priority              |-> parsed_cases[i].priority,
         test_type             |-> parsed_cases[i].test_type,
         estimated_duration    |-> parsed_cases[i].estimated_duration,
         tags                  |-> parsed_cases[i].tags]]

_convert_persona_test_cases(groups) ==
    [g \in 1..Len(groups) |->
        [persona |-> groups[g].persona,
         cases   |-> [i \in 1..Len(groups[g].cases) |->
                         [title                 |-> groups[g].cases[i].title,
                          description           |-> groups[g].cases[i].description,
                          persona               |-> groups[g].cases[i].persona,
                          prerequisites         |-> groups[g].cases[i].prerequisites,
                          test_steps            |-> groups[g].cases[i].test_steps,
                          expected_final_result |-> groups[g].cases[i].expected_final_result,
                          classification        |-> groups[g].cases[i].classification,
                          priority              |-> groups[g].cases[i].priority]]]]

RECURSIVE SumLens(_, _)
SumLens(groups, g) ==
    IF g > Len(groups) THEN 0 ELSE Len(groups[g].cases) + SumLens(groups, g + 1)

_build_summary(parsed) ==
    LET total_test_cases == Len(parsed.test_cases)
        automated_count ==
            Cardinality({i \in 1..total_test_cases :
                parsed.test_cases[i].classification \in {"api_automation", "ui_automation"}})
    IN  [total_test_cases        |-> total_test_cases,
         persona_test_cases      |-> SumLens(parsed.persona_test_cases, 1),
         cross_persona_scenarios |-> Len(parsed.cross_persona_scenarios),
         automation_ratio        |-> IF total_test_cases > 0
                                     THEN [num |-> automated_count, den |-> total_test_cases]
                                     ELSE Zero,
         quality_score           |-> parsed.confidence_score,
         parsing_success         |-> parsed.parsing_success,
         parsing_errors_count    |-> Len(parsed.parsing_errors)]

_build_generation_metadata(ctx, prompt, parsed) ==
    [domain             |-> ctx.domain,
     complexity         |-> ctx.complexity,
     generation_type    |-> ctx.generation_type,
     template_used      |-> prompt.template_name,
     parsing_confidence |-> parsed.confidence_score,
     parsing_errors     |-> parsed.parsing_errors,
     model_used         |-> model,
     temperature_used   |-> OPENAI_TEMPERATURE]

\* mutant: the result carries the usage of the latest completion call
BuildResultLatestUsage(parsed, usage, ctx, prompt) ==
    [test_cases              |-> _convert_parsed_test_cases(parsed.test_cases),
     persona_test_cases      |-> _convert_persona_test_cases(parsed.persona_test_cases),
     cross_persona_scenarios |-> parsed.cross_persona_scenarios,
     summary                 |-> _build_summary(parsed),
     quality_score           |-> parsed.confidence_score,
     confidence_score        |-> parsed.confidence_score,
     token_usage             |-> IF enhanced_usage.set THEN enhanced_usage.value ELSE usage,
     generation_metadata     |-> _build_generation_metadata(ctx, prompt, parsed),
     success                 |-> parsed.parsing_success,
     error_message           |-> None]

\* the GenerationResult of lines 159-171
BuildResult(parsed, usage, ctx, prompt) ==
    [test_cases              |-> _convert_parsed_test_cases(parsed.test_cases),
     persona_test_cases      |-> _convert_persona_test_cases(parsed.persona_test_cases),
     cross_persona_scenarios |-> parsed.cross_persona_scenarios,
     summary                 |-> _build_summary(parsed),
     quality_score           |-> parsed.confidence_score,
     confidence_score        |-> parsed.confidence_score,
     token_usage             |-> usage,
     generation_metadata     |-> _build_generation_metadata(ctx, prompt, parsed),
     success                 |-> parsed.parsing_success,
     error_message           |-> None]

\* mutant: the failure result does not carry the error
FailedResultWithoutMessage(e, now) ==
    [test_cases              |-> << >>,
     persona_test_cases      |-> << >>,
     cross_persona_scenarios |-> << >>,
     summary                 |-> << >>,
     quality_score           |-> Zero,
     confidence_score        |-> Zero,
     token_usage             |-> TokenUsage(model, 0, 0, 0, None, now),
     generation_metadata     |-> << >>,
     success                 |-> FALSE,
     error_message           |-> None]

\* the GenerationResult of lines 185-199
FailedResult(e, now) ==
    [test_cases              |-> << >>,
     persona_test_cases      |-> << >>,
     cross_persona_scenarios |-> << >>,
     summary                 |-> << >>,
     quality_score           |-> Zero,
     confidence_score        |-> Zero,
     token_usage             |-> TokenUsage(model, 0, 0, 0, None, now),
     generation_metadata     |-> << >>,
     success                 |-> FALSE,
     error_message           |-> e.message]

\* mutant: the handler catches the API errors only
ApiErrorClasses == {"APIError"}

\* the classes of the handler of generate_test_cases (line 181)
OuterHandlerClasses == {"Exception"}

\* an exception raised inside the try block of generate_test_cases
Outcome(e, now) ==
    IF Catches(OuterHandlerClasses, e)
    THEN [kind |-> "result", value |-> FailedResult(e, now)]
    ELSE [kind |-> "raised", exception |-> e]

\* mutant: the handler of the enhanced retry catches rate-limit errors only
EnhancedHandlerRateLimitOnly == {"RateLimitError"}

\* the classes of the handler of _retry_with_enhanced_prompt (line 445)
EnhancedHandlerClasses == {"Exception"}

\* mutant: one iteration too many
LoopIterationsOffByOne == max_retries + 2

\* mutant: every API error with a status code is retried like a server error
RetryDecisionRetryingClientErrors(e, att) ==
    IF Catches({"RateLimitError"}, e)
    THEN IF att < max_retries
         THEN [do |-> "sleep", base |-> rate_limit_base_delay]
         ELSE [do |-> "next"]
    ELSE IF Catches({"APITimeoutError", "APIConnectionError"}, e)
    THEN IF att < max_retries
         THEN [do |-> "sleep", base |-> base_delay]
         ELSE [do |-> "next"]
    ELSE IF e.status_code # 0 /\ att < max_retries
    THEN [do |-> "sleep", base |-> base_delay]
    ELSE [do |-> "break"]

\* range(self.retry_config.max_retries + 1) of line 209
LoopIterations == max_retries + 1

\* what the handlers of _generate_with_retry do with an exception raised by
\* the completion call of the given attempt: sleep and continue, fall out of
\* the handler to the next iteration (next), or leave the loop (break)
RetryDecision(e, att) ==
    IF Catches({"RateLimitError"}, e)
    THEN IF att < max_retries
         THEN [do |-> "sleep", base |-> rate_limit_base_delay]
         ELSE [do |-> "next"]
    ELSE IF Catches({"APITimeoutError", "APIConnectionError"}, e)
    THEN IF att < max_retries
         THEN [do |-> "sleep", base |-> base_delay]
         ELSE [do |-> "next"]
    ELSE IF e.status_code # 0 /\ e.status_code >= 500 /\ att < max_retries
    THEN [do |-> "sleep", base |-> base_delay]
    ELSE [do |-> "break"]

\* enhanced_context.additional_context.update(...) of lines 392-408
QualityIssues(initial) ==
    (IF Len(initial.test_cases) < 3 THEN << "insufficient test cases" >> ELSE << >>)
    \o (IF initial.parsing_errors # << >> THEN << "parsing errors" >> ELSE << >>)

EnhancementKeys ==
    {"quality_improvement_needed", "previous_issues", "minimum_test_cases", "focus_on_clarity"}

Enhancement(req, initial) ==
    [k \in EnhancementKeys |->
        CASE k = "quality_improvement_needed" -> TRUE
          [] k = "previous_issues"            -> QualityIssues(initial)
          [] k = "minimum_test_cases"         -> Max(5, req.max_test_cases \div 2)
          [] k = "focus_on_clarity"           -> TRUE]

DictUpdate(d, u) ==
    [k \in DOMAIN d \cup DOMAIN u |-> IF k \in DOMAIN u THEN u[k] ELSE d[k]]

\* the reference held by context.additional_context after lines 399-401:
\* a None or empty dict is replaced by a new dict object
EnhancedRef(ctx, heap) ==
    IF ctx.additional_context = 0 \/ DOMAIN heap[ctx.additional_context] = {}
    THEN Len(heap) + 1
    ELSE ctx.additional_context

EnhancedHeap(ctx, heap, req, initial) ==
    LET ref == EnhancedRef(ctx, heap)
        grown == IF ref > Len(heap) THEN Append(heap, << >>) ELSE heap
    IN  [grown EXCEPT ![ref] = DictUpdate(@, Enhancement(req, initial))]

NoContext == PromptContext([domain |-> None, complexity |-> None, generation_type |-> None,
                            user_story_title |-> "", user_story_description |-> "",
                            acceptance_criteria |-> "", additional_context |-> 0,
                            personas |-> << >>, business_rules |-> << >>])
NoPrompt == [template_name |-> None]
NoParams == [model |-> None, max_tokens |-> 0, temperature |-> 0]
NoContent == [kind |-> "unset"]

\* the service is constructed, no redis client is configured, and a caller
\* holds the request it is about to pass
ServiceInit(inp) ==
    /\ request = inp.request
    /\ dicts = inp.dicts
    /\ entry = [request |-> inp.request, dicts |-> inp.dicts]
    /\ pc = "idle"
    /\ context = NoContext
    /\ prompt_data = NoPrompt
    /\ generation_params = NoParams
    /\ phase = None
    /\ attempt = 0
    /\ last_exception = NoException
    /\ api_log = << >>
    /\ sleeps = << >>
    /\ raw_response = NoContent
    /\ token_usage = Unset
    /\ enhanced_usage = Unset
    /\ parsed_response = Unset
    /\ initial_response = Unset
    /\ enhanced_response = Unset
    /\ tracker = [history |-> << >>, daily |-> << >>]
    /\ today = 1
    /\ returned = [kind |-> "pending"]
    /\ completed_calls = 0
    /\ tracked = << >>
    /\ enhanced_retries = 0
    /\ failures = << >>
    /\ api_calls = 0
    /\ backoff_sleeps = 0

Init ==
    /\ \E inp \in RequestInputs : ServiceInit(inp)
    /\ tasks = << >>
    /\ redis = NoRedis
    /\ templates = DefaultTemplates
    /\ call = NoCall

callVars == << phase, attempt, last_exception, api_log, sleeps >>
respVars == << raw_response, token_usage, enhanced_usage, parsed_response,
               initial_response, enhanced_response >>

Failure(ph, stage, e) == [phase |-> ph, stage |-> stage, exception |-> e]

TemplateError ==
    [type |-> "TemplateError", status_code |-> 0, message |-> "template could not be rendered"]
ValidationError(message) ==
    [type |-> "ValidationError", status_code |-> 0, message |-> message]

\* lines 100-128: classification, context, prompt and parameters.  Rendering
\* raises when the selected template does not compile or render.
Invoke ==
    /\ pc = "idle"
    /\ request' = Classify(request)
    /\ context' = PromptContext(request')
    /\ \E render_ok \in BOOLEAN :
          IF render_ok
          THEN /\ prompt_data' = generate_prompt(context', dicts)
               /\ generation_params' = _adjust_generation_parameters(context')
               /\ phase' = "first"
               /\ pc' = "calling"
               /\ UNCHANGED << returned, failures >>
          ELSE /\ failures' = Append(failures, Failure("first", "rendering", TemplateError))
               /\ returned' = Outcome(TemplateError, today)
               /\ pc' = "done"
               /\ UNCHANGED << prompt_data, generation_params, phase >>
    /\ UNCHANGED << dicts, entry, attempt, last_exception, api_log, sleeps, respVars,
                    tracker, today, completed_calls, tracked, enhanced_retries,
                    api_calls, backoff_sleeps >>
    /\ UNCHANGED << poolVars, unitVars >>

\* lines 218-240: the completion call of this attempt returns a completion
CallSucceeds ==
    /\ pc = "calling"
    /\ \E content \in Contents, u \in ApiUsages :
          LET usage == TokenUsage(model, u.prompt_tokens, u.completion_tokens,
                                  u.total_tokens, "chatcmpl-" \o phase, today)
          IN  /\ raw_response' = content
              /\ IF phase = "first"
                 THEN /\ token_usage' = Some(usage)
                      /\ pc' = "parsing"
                      /\ UNCHANGED enhanced_usage
                 ELSE /\ enhanced_usage' = Some(usage)
                      /\ pc' = "enh_parsing"
                      /\ UNCHANGED token_usage
    /\ api_log' = Append(api_log, [type |-> "ok", status_code |-> 200])
    /\ completed_calls' = completed_calls + 1
    /\ api_calls' = api_calls + 1
    /\ UNCHANGED << request, dicts, entry, context, prompt_data, generation_params,
                    phase, attempt, last_exception, sleeps, parsed_response,
                    initial_response, enhanced_response, tracker, today, returned,
                    tracked, enhanced_retries, failures, backoff_sleeps >>
    /\ UNCHANGED << poolVars, unitVars >>

\* mutant: the handler of generate_test_cases tracks the zero usage record
\* of the failure result
CallRaisesTrackingFailure(e) ==
    /\ failures' = Append(failures, Failure(phase, "calling", e))
    /\ IF phase = "enhanced" /\ Catches(EnhancedHandlerClasses, e)
       THEN /\ enhanced_response' = Unset
            /\ pc' = "tracking"
            /\ UNCHANGED << returned, tracker >>
       ELSE /\ returned' = Outcome(e, today)
            /\ pc' = "done"
            /\ tracker' = track_usage(tracker, TokenUsage(model, 0, 0, 0, None, today))
            /\ UNCHANGED enhanced_response

\* _generate_with_retry raises e (line 270, or an exception no handler of
\* the loop catches): to the handler of generate_test_cases in the first
\* phase, to the handler of _retry_with_enhanced_prompt in the enhanced one
CallRaises(e) ==
    /\ failures' = Append(failures, Failure(phase, "calling", e))
    /\ IF phase = "enhanced" /\ Catches(EnhancedHandlerClasses, e)
       THEN /\ enhanced_response' = Unset
            /\ pc' = "tracking"
            /\ UNCHANGED returned
       ELSE /\ returned' = Outcome(e, today)
            /\ pc' = "done"
            /\ UNCHANGED enhanced_response
    /\ UNCHANGED tracker

\* the loop goes on to its next iteration, or is exhausted
NextIteration ==
    IF attempt + 1 < LoopIterations
    THEN /\ attempt' = attempt + 1
         /\ pc' = "calling"
         /\ UNCHANGED << returned, enhanced_response, failures, tracker >>
    ELSE /\ UNCHANGED attempt
         /\ CallRaises(last_exception')

\* lines 242-270: the completion call of this attempt raises
CallFails ==
    /\ pc = "calling"
    /\ \E e \in ApiErrors(phase, attempt) :
          LET decision == RetryDecision(e, attempt)
          IN  /\ last_exception' = e
              /\ api_log' = Append(api_log, [type |-> e.type, status_code |-> e.status_code])
              /\ CASE decision.do = "sleep" ->
                        /\ \E j \in 0..(JitterSteps - 1) :
                              sleeps' = Append(sleeps,
                                  [attempt |-> attempt, base |-> decision.base,
                                   delay |-> _calculate_retry_delay(attempt, decision.base, j)])
                        /\ backoff_sleeps' = backoff_sleeps + 1
                        /\ pc' = "sleeping"
                        /\ UNCHANGED << attempt, returned, enhanced_response, failures,
                                        tracker >>
                   [] decision.do = "next" ->
                        /\ UNCHANGED << sleeps, backoff_sleeps >>
                        /\ NextIteration
                   [] decision.do = "break" ->
                        /\ UNCHANGED << sleeps, attempt, backoff_sleeps >>
                        /\ CallRaises(last_exception')
    /\ api_calls' = api_calls + 1
    /\ UNCHANGED << request, dicts, entry, context, prompt_data, generation_params,
                    phase, raw_response, token_usage, enhanced_usage,
                    parsed_response, initial_response, today,
                    completed_calls, tracked, enhanced_retries >>
    /\ UNCHANGED << poolVars, unitVars >>

\* asyncio.sleep returns and the handler continues the loop
SleepReturns ==
    /\ pc = "sleeping"
    /\ NextIteration
    /\ UNCHANGED << request, dicts, entry, context, prompt_data, generation_params,
                    phase, last_exception, api_log, sleeps, raw_response, token_usage,
                    enhanced_usage, parsed_response, initial_response, today,
                    completed_calls, tracked, enhanced_retries, api_calls,
                    backoff_sleeps >>
    /\ UNCHANGED << poolVars, unitVars >>

\* _generate_with_retry has returned: its locals are gone
CallReturned ==
    /\ attempt' = 0
    /\ last_exception' = NoException
    /\ api_log' = << >>
    /\ sleeps' = << >>

\* lines 135-151 up to the enhanced Calling phase: the first response is
\* parsed; below the threshold _retry_with_enhanced_prompt is entered, which
\* updates the context's dict, renders the enhanced prompt and starts the
\* enhanced Calling phase (lines 390-433)
ParseAndGate ==
    /\ pc = "parsing"
    /\ CallReturned
    /\ \E r \in {parse_response(raw_response)} :
           IF r.raised
           THEN /\ failures' = Append(failures,
                                  Failure("first", "parsing", ValidationError(r.message)))
                /\ returned' = Outcome(ValidationError(r.message), today)
                /\ pc' = "done"
                /\ UNCHANGED << dicts, context, prompt_data, generation_params, phase,
                                parsed_response, initial_response, enhanced_response,
                                enhanced_retries >>
           ELSE /\ parsed_response' = Some(r.value)
                /\ initial_response' = Some(r.value)
                /\ UNCHANGED returned
                /\ IF BelowThreshold(r.value.confidence_score, request.quality_threshold)
                   THEN /\ enhanced_retries' = enhanced_retries + 1
                        /\ dicts' = EnhancedHeap(context, dicts, request, r.value)
                        /\ context' = [context EXCEPT
                                          !.additional_context = EnhancedRef(context, dicts)]
                        /\ \E render_ok \in BOOLEAN :
                              IF render_ok
                              THEN /\ prompt_data' =
                                        [generate_prompt(context', dicts') EXCEPT
                                            !.user_prompt.quality_enhancement = TRUE]
                                   /\ generation_params' =
                                        [_adjust_generation_parameters(context') EXCEPT
                                            !.temperature = Min(@ + EnhancedTemperatureStep,
                                                                EnhancedTemperatureCap)]
                                   /\ phase' = "enhanced"
                                   /\ pc' = "calling"
                                   /\ UNCHANGED << enhanced_response, failures >>
                              ELSE /\ failures' = Append(failures,
                                          Failure("enhanced", "rendering", TemplateError))
                                   /\ enhanced_response' = Unset
                                   /\ pc' = "tracking"
                                   /\ UNCHANGED << prompt_data, generation_params, phase >>
                   ELSE /\ pc' = "tracking"
                        /\ UNCHANGED << dicts, context, prompt_data, generation_params,
                                        phase, enhanced_response, enhanced_retries,
                                        failures >>
    /\ UNCHANGED << request, entry, raw_response, token_usage, enhanced_usage, tracker,
                    today, completed_calls, tracked, api_calls, backoff_sleeps >>
    /\ UNCHANGED << poolVars, unitVars >>

\* lines 435-447 and 150-151: the enhanced response is parsed and its usage
\* tracked; it replaces the parsed response only with a higher confidence
EnhancedParse ==
    /\ pc = "enh_parsing"
    /\ CallReturned
    /\ \E r \in {parse_response(raw_response)} :
           IF r.raised
           THEN /\ failures' = Append(failures,
                                  Failure("enhanced", "parsing", ValidationError(r.message)))
                /\ enhanced_response' = Unset
                /\ UNCHANGED << parsed_response, tracker, tracked >>
           ELSE /\ enhanced_response' = Some(r.value)
                /\ tracker' = track_usage(tracker, enhanced_usage.value)
                /\ tracked' = Append(tracked, enhanced_usage.value)
                /\ parsed_response' =
                      IF Less(parsed_response.value.confidence_score,
                              r.value.confidence_score)
                      THEN Some(r.value)
                      ELSE parsed_response
                /\ UNCHANGED failures
    /\ pc' = "tracking"
    /\ UNCHANGED << request, dicts, entry, context, prompt_data, generation_params,
                    phase, raw_response, token_usage, enhanced_usage,
                    initial_response, today, returned, completed_calls,
                    enhanced_retries, api_calls, backoff_sleeps >>
    /\ UNCHANGED << poolVars, unitVars >>

\* lines 153-179: the first call's usage is tracked and the result is built
TrackAndBuild ==
    /\ pc = "tracking"
    /\ tracker' = track_usage(tracker, token_usage.value)
    /\ tracked' = Append(tracked, token_usage.value)
    /\ returned' = [kind |-> "result",
                    value |-> BuildResult(parsed_response.value, token_usage.value,
                                          context, prompt_data)]
    /\ pc' = "done"
    /\ UNCHANGED << request, dicts, entry, context, prompt_data, generation_params,
                    callVars, respVars, today, completed_calls, enhanced_retries,
                    failures, api_calls, backoff_sleeps >>
    /\ UNCHANGED << poolVars, unitVars >>

Next ==
    \/ Invoke
    \/ CallSucceeds
    \/ CallFails
    \/ SleepReturns
    \/ ParseAndGate
    \/ EnhancedParse
    \/ TrackAndBuild

Spec == Init /\ [][Next]_vars

(***************************************************************************)
(* Concurrent track_usage calls on one TokenTracker.  The tasks run on one *)
(* event loop: a task runs from one await to the next without interruption.*)
(* track_usage awaits only in _store_usage_in_redis, once per redis        *)
(* command; a command that raises ends the store (lines 121-123).          *)
(***************************************************************************)
\* the record task t passes: tasks share days and differ in size
PoolUsage(t) ==
    TokenUsage(IF t % 2 = 0 THEN "gpt-4" ELSE model, 100 * t, 50 * t, 150 * t,
               "chatcmpl-" \o ToString(t), 1 + (t % 2))

\* the value of int(time.time()) when a record is stored
ClockSeconds == {1, 2}

RedisCommands == << "setex", "hincrby_requests", "hincrbyfloat_tokens",
                    "hincrbyfloat_cost", "expire" >>

CommandAfter(c) ==
    IF c = "expire" THEN "done"
    ELSE RedisCommands[1 + CHOOSE i \in 1..Len(RedisCommands) : RedisCommands[i] = c]

\* HINCRBY / HINCRBYFLOAT on the day's hash; a missing hash or field counts 0
HashIncr(daily, day, field, n) ==
    [d \in DOMAIN daily \cup {day} |->
        IF d # day THEN daily[d]
        ELSE [f \in {"total_requests", "total_tokens", "total_cost"} |->
                 (IF d \in DOMAIN daily THEN daily[d][f] ELSE 0)
                 + (IF f = field THEN n ELSE 0)]]

\* the effect of one command of _store_usage_in_redis (lines 107-120)
RedisApply(store, c, usage, second) ==
    CASE c = "setex" ->
             [store EXCEPT !.records = @ \cup {<< usage.timestamp, second >>}]
      [] c = "hincrby_requests" ->
             [store EXCEPT !.daily = HashIncr(@, usage.timestamp, "total_requests", 1)]
      [] c = "hincrbyfloat_tokens" ->
             [store EXCEPT !.daily = HashIncr(@, usage.timestamp, "total_tokens",
                                              usage.total_tokens)]
      [] c = "hincrbyfloat_cost" ->
             [store EXCEPT !.daily = HashIncr(@, usage.timestamp, "total_cost",
                                              usage.estimated_cost)]
      [] OTHER -> store

PoolInit ==
    /\ ServiceInit(CHOOSE inp \in RequestInputs : inp.request.domain = None)
    /\ tasks = [t \in 1..MaxTasks |-> [pc |-> "ready", usage |-> PoolUsage(t)]]
    /\ \E client \in BOOLEAN : redis = [NoRedis EXCEPT !.client = client]
    /\ templates = DefaultTemplates
    /\ call = NoCall

\* lines 82-101 up to the first await: the record is appended and its day's
\* bucket updated
TrackUsageRuns(t) ==
    /\ tasks[t].pc = "ready"
    /\ tracker' = track_usage(tracker, tasks[t].usage)
    /\ tasks' = [tasks EXCEPT ![t].pc = IF redis.client THEN RedisCommands[1] ELSE "done"]
    /\ UNCHANGED << redis, invocationVars, unitVars >>

\* an awaited redis command completes and the task runs to its next await
RedisCommandReturns(t) ==
    /\ tasks[t].pc \notin {"ready", "done"}
    /\ \E second \in ClockSeconds :
          redis' = RedisApply(redis, tasks[t].pc, tasks[t].usage, second)
    /\ tasks' = [tasks EXCEPT ![t].pc = CommandAfter(@)]
    /\ UNCHANGED << tracker, invocationVars, unitVars >>

\* an awaited redis command raises: the handler of lines 121-123 prints and
\* track_usage returns
RedisCommandRaises(t) ==
    /\ tasks[t].pc \notin {"ready", "done"}
    /\ tasks' = [tasks EXCEPT ![t].pc = "done"]
    /\ UNCHANGED << tracker, redis, invocationVars, unitVars >>

PoolNext ==
    \E t \in 1..MaxTasks :
        \/ TrackUsageRuns(t)
        \/ RedisCommandReturns(t)
        \/ RedisCommandRaises(t)

TrackerSpec == PoolInit /\ [][PoolNext]_vars

(***************************************************************************)
(* The components called on their own: one call per behaviour, its         *)
(* arguments drawn at the start, and for the prompt manager any sequence   *)
(* of add_custom_template calls before the lookup.                         *)
(***************************************************************************)
StoryDomains == {"ecommerce", "finance", "healthcare", "saas", "mobile", "api", "general"}
StoryComplexities == {"simple", "medium", "complex"}
TestGenerationTypes ==
    {"standard", "persona_based", "edge_case_focused", "performance_focused",
     "security_focused"}

\* the templates a caller registers
CustomTemplates ==
    {PromptTemplate("Custom mobile", "mobile", "standard"),
     PromptTemplate("Custom SaaS", "saas", "standard"),
     PromptTemplate("Custom finance personas", "finance", "persona_based"),
     PromptTemplate("Custom security", "general", "security_focused")}

Descriptions ==
    {"", "As a user I want to log in", "Checkout and payment",
     "PAYMENT by card", "Integration settings", "Account balance after a transaction",
     "Patient books a doctor", "REST API endpoint for the mobile app",
     "Webhook integration with json", "Swipe to buy a product offline",
     "Tenant dashboard", "Loan and credit for an order in the shop",
     "Happy path"}

ModelNames == {"gpt-4-turbo-preview", "gpt-4", "gpt-3.5-turbo", "gpt-4o"}
TokenCounts == {0, 1, 999, 1000, 1500, 128000}

PersonaNames == << "admin", "guest", "agent", "owner", "auditor", "member" >>

\* the ParsedTestCase objects the validation pass is applied to on its own:
\* parsed cases, and cases without a title or with labels outside the
\* closed sets
ParsedCaseKinds ==
    {_parse_test_case_data(OneStepCase).value,
     _parse_test_case_data(NoStepsCase).value,
     _parse_test_case_data(NegativeDurationCase).value,
     [_parse_test_case_data(OneStepCase).value EXCEPT !.title = ""],
     [_parse_test_case_data(NoStepsCase).value EXCEPT !.title = ""],
     [_parse_test_case_data(HalfCase).value EXCEPT
         !.classification = "exploratory", !.priority = "urgent", !.test_type = "smoke"]}

\* n copies of s
RECURSIVE Repeat(_, _)
Repeat(s, n) == IF n = 0 THEN "" ELSE s \o Repeat(s, n - 1)

Pending(fn, args) == [fn |-> fn, args |-> args, state |-> "pending"]
ReturnedFrom(c, result) == [c EXCEPT !.state = "returned"] @@ [result |-> result]

UnitInit ==
    /\ ServiceInit(CHOOSE inp \in RequestInputs : inp.request.domain = None)
    /\ tasks = << >>
    /\ redis = NoRedis
    /\ templates = DefaultTemplates
    /\ \/ \E content \in ParserInputs : call = Pending("parse_response", content)
       \/ \E m \in ModelNames, p \in TokenCounts, c \in TokenCounts :
             call = Pending("TokenUsage",
                            [model |-> m, prompt_tokens |-> p, completion_tokens |-> c])
       \/ \E cx \in StoryComplexities, g \in TestGenerationTypes, n \in 0..MaxPersonas :
             call = Pending("_adjust_generation_parameters",
                            [complexity |-> cx, generation_type |-> g,
                             personas |-> SubSeq(PersonaNames, 1, n)])
       \/ \E description \in Descriptions : call = Pending("_detect_domain", description)
       \/ \E list \in SeqsUpTo(ParsedCaseKinds, MaxCases),
             errors \in {<< >>, << "Error parsing test case: title" >>} :
             call = Pending("_validate_test_cases",
                            [test_cases |-> list, parsing_errors |-> errors])
       \* requests around the thresholds of _estimate_complexity: criteria of
       \* so many lines, descriptions of so many words, the last word an
       \* integration keyword or not, so many personas and business rules
       \/ \E lines \in {1, 5, 6, 10, 11}, words \in {3, 50, 51, 100, 101},
             keyword \in BOOLEAN, np \in {0, 2, 3, 4}, nr \in {0, 2, 3, 4} :
             call = Pending("_estimate_complexity",
                            [user_story_description |->
                                 Repeat("so ", words - 1)
                                 \o (IF keyword THEN "Webhook" ELSE "done"),
                             acceptance_criteria    |-> "Given" \o Repeat("\nthen", lines - 1),
                             personas               |-> SubSeq(PersonaNames, 1, np),
                             business_rules         |->
                                 SubSeq(<< "rule 1", "rule 2", "rule 3", "rule 4" >>, 1, nr)])
       \/ \E dom \in StoryDomains, g \in TestGenerationTypes :
             call = Pending("get_optimal_template",
                            [domain |-> dom, generation_type |-> g])

ParseResponse ==
    /\ call.fn = "parse_response" /\ call.state = "pending"
    /\ call' = ReturnedFrom(call, parse_response(call.args))
    /\ UNCHANGED << serviceVars, poolVars, templates >>

NewTokenUsage ==
    /\ call.fn = "TokenUsage" /\ call.state = "pending"
    /\ call' = ReturnedFrom(call,
                    TokenUsage(call.args.model, call.args.prompt_tokens,
                               call.args.completion_tokens,
                               call.args.prompt_tokens + call.args.completion_tokens,
                               None, today))
    /\ UNCHANGED << serviceVars, poolVars, templates >>

AdjustGenerationParameters ==
    /\ call.fn = "_adjust_generation_parameters" /\ call.state = "pending"
    /\ call' = ReturnedFrom(call, _adjust_generation_parameters(call.args))
    /\ UNCHANGED << serviceVars, poolVars, templates >>

DetectDomain ==
    /\ call.fn = "_detect_domain" /\ call.state = "pending"
    /\ call' = ReturnedFrom(call, _detect_domain(call.args))
    /\ UNCHANGED << serviceVars, poolVars, templates >>

ValidateTestCases ==
    /\ call.fn = "_validate_test_cases" /\ call.state = "pending"
    /\ call' = ReturnedFrom(call, _validate_test_cases(call.args.test_cases,
                                                       call.args.parsing_errors))
    /\ UNCHANGED << serviceVars, poolVars, templates >>

EstimateComplexity ==
    /\ call.fn = "_estimate_complexity" /\ call.state = "pending"
    /\ call' = ReturnedFrom(call, _estimate_complexity(call.args))
    /\ UNCHANGED << serviceVars, poolVars, templates >>

AddCustomTemplate ==
    /\ call.fn = "get_optimal_template" /\ call.state = "pending"
    /\ \E template \in CustomTemplates :
          templates' = add_custom_template(templates, template)
    /\ UNCHANGED << serviceVars, poolVars, call >>

GetOptimalTemplate ==
    /\ call.fn = "get_optimal_template" /\ call.state = "pending"
    /\ call' = ReturnedFrom(call, get_optimal_template(templates, call.args))
    /\ UNCHANGED << serviceVars, poolVars, templates >>

UnitNext ==
    \/ ParseResponse
    \/ NewTokenUsage
    \/ AdjustGenerationParameters
    \/ DetectDomain
    \/ EstimateComplexity
    \/ ValidateTestCases
    \/ AddCustomTemplate
    \/ GetOptimalTemplate

UnitSpec == UnitInit /\ [][UnitNext]_vars

(***************************************************************************)
(* Properties                                                              *)
(***************************************************************************)
Done == pc = "done"
Returned == returned.kind = "result"
Result == returned.value

FirstPhaseFailures == {i \in 1..Len(failures) : failures[i].phase = "first"}
EnhancedFailures == {i \in 1..Len(failures) : failures[i].phase = "enhanced"}

\* C1 as stated: generate_test_cases never raises to its caller; it ends
\* by returning a GenerationResult, and whenever any stage raised (the
\* stages of the enhanced retry included) the result has success=false.
C1_AnyStageFailureGivesFailure ==
    /\ returned.kind # "raised"
    /\ Done => /\ Returned
               /\ (failures # << >> => ~Result.success)

\* C1 amended: generate_test_cases never raises to its caller and ends by
\* returning a GenerationResult; when a stage of the main pipeline
\* (rendering, the first Calling phase, parsing of the first response)
\* raises, the result has success=false; when only a stage of the enhanced
\* retry raises, the failure is absorbed and success is the parsing_success
\* of the first parsed response.
C1_NeverRaises ==
    /\ returned.kind # "raised"
    /\ Done => /\ Returned
               /\ (FirstPhaseFailures # {} => ~Result.success)
               /\ (FirstPhaseFailures = {} /\ EnhancedFailures # {} =>
                      /\ Result.success = initial_response.value.parsing_success
                      /\ Result.error_message = None)

C1_Witness ==
    /\ Done /\ Returned
    /\ \E i \in FirstPhaseFailures : failures[i].stage = "parsing"
    /\ ~Result.success

\* C2: when the pipeline fails with an exception, the result has
\* success=false, no test cases, a token usage of 0 prompt, completion and
\* total tokens, and the message of that exception as error_message.
C2_FailedResultCarriesError ==
    Done => \A i \in FirstPhaseFailures :
                /\ Returned
                /\ ~Result.success
                /\ Result.test_cases = << >>
                /\ Result.token_usage.prompt_tokens = 0
                /\ Result.token_usage.completion_tokens = 0
                /\ Result.token_usage.total_tokens = 0
                /\ Result.error_message # None
                /\ Result.error_message = failures[i].exception.message

\* the first Calling phase exhausted its retries
C2_Witness ==
    /\ Done /\ Returned
    /\ phase = "first" /\ Len(api_log) = max_retries + 1
    /\ \E i \in FirstPhaseFailures : failures[i].stage = "calling"
    /\ Result.error_message = "rate limit exceeded, first call 4"

\* C3: in a Calling phase the completion API is invoked at most
\* max_retries + 1 = 4 times, after at most 3 backoff sleeps.
C3_AtMostFourCalls ==
    /\ Len(api_log) <= max_retries + 1
    /\ Len(sleeps) <= max_retries
    /\ Len(api_log) <= 4

C3_Witness ==
    /\ Len(api_log) = 4 /\ Len(sleeps) = 3
    /\ api_log[4].type # "ok"
    /\ Done

IsClientError(o) == o.type = "APIStatusError" /\ o.status_code < 500
LastCallClientError == api_log # << >> /\ IsClientError(api_log[Len(api_log)])

\* C4 as stated: after a non-rate-limit API error with a status code below
\* 500 generate_test_cases returns success=false carrying that error, in
\* whichever Calling phase the error was raised.
C4_ClientErrorAlwaysSurfaced ==
    (Done /\ LastCallClientError) =>
        /\ Returned
        /\ ~Result.success
        /\ Result.error_message = last_exception.message

\* C4 amended: a non-rate-limit API error with a status code below 500 ends
\* its Calling phase: no completion call and no sleep follows it.  In the
\* first Calling phase generate_test_cases then returns success=false with
\* that error as error_message; in the enhanced Calling phase the error is
\* absorbed and the result is built from the first parsed response, with
\* error_message null.
C4_ClientErrorNotRetried ==
    /\ \A i \in 1..Len(api_log) :
          IsClientError(api_log[i]) =>
              /\ i = Len(api_log)
              /\ Len(sleeps) = i - 1
              /\ pc \in {"tracking", "done"}
    /\ (Done /\ LastCallClientError) =>
          /\ Returned
          /\ IF phase = "first"
             THEN /\ ~Result.success
                  /\ Result.error_message = last_exception.message
             ELSE /\ Result.success = initial_response.value.parsing_success
                  /\ Result.error_message = None

\* a client error on the second attempt of the first phase
C4_Witness ==
    /\ Done /\ phase = "first"
    /\ Len(api_log) = 2 /\ LastCallClientError
    /\ Returned /\ ~Result.success

RateLimitedThriceThenOk ==
    /\ Len(api_log) = 4
    /\ \A i \in 1..3 : api_log[i].type = "RateLimitError"
    /\ api_log[4].type = "ok"

RECURSIVE TotalSlept(_, _)
TotalSlept(log, i) == IF i > Len(log) THEN 0 ELSE log[i].delay + TotalSlept(log, i + 1)

\* C5: after rate-limit errors on the first three attempts and a completion
\* on the fourth, the Calling phase has returned that completion's content
\* and usage and nothing was surfaced; it slept three times, each sleep at
\* most 60 s and at least half of min(60 * 2^attempt, 60) s, so between 90 s
\* and 180 s in total.
C5_ThreeRateLimitsThenSuccess ==
    RateLimitedThriceThenOk =>
        /\ pc \in {"parsing", "enh_parsing"}
        /\ returned.kind = "pending"
        /\ raw_response \in Contents
        /\ IF phase = "first" THEN token_usage.set ELSE enhanced_usage.set
        /\ Len(sleeps) = 3
        /\ \A i \in 1..3 :
              /\ sleeps[i].attempt = i - 1
              /\ sleeps[i].delay <= 60 * TimeScale
              /\ 2 * sleeps[i].delay >= Min(60 * Pow(2, i - 1), 60) * TimeScale
        /\ TotalSlept(sleeps, 1) >= 90 * TimeScale
        /\ TotalSlept(sleeps, 1) <= 180 * TimeScale

C5_Witness ==
    /\ RateLimitedThriceThenOk
    /\ pc = "parsing"
    /\ raw_response = ContentFull
    /\ Len(sleeps) = 3

\* C6: the enhanced retry is entered exactly once when the confidence of
\* the first parsed response is strictly below the request's quality
\* threshold, not at all when it is at or above it, and never a second time.
C6_QualityGateOnce ==
    /\ enhanced_retries <= 1
    /\ ~initial_response.set => enhanced_retries = 0
    /\ initial_response.set =>
          LET c == initial_response.value.confidence_score
          IN  (enhanced_retries = 1) <=> (c.num * 100 < request.quality_threshold * c.den)

\* the enhanced response is below the threshold as well
C6_Witness ==
    /\ Done /\ Returned
    /\ enhanced_retries = 1
    /\ enhanced_response.set
    /\ LET c == enhanced_response.value.confidence_score
       IN  c.num * 100 < request.quality_threshold * c.den

\* C7: the number of usage records passed to track_usage in an invocation
\* equals the number of completion calls that completed in it.
C7_EveryCompletedCallTracked ==
    Done => Len(tracked) = completed_calls

\* C8: after an enhanced retry the parsed response used is the enhanced one
\* only if its confidence is strictly greater than the original's, and the
\* original one otherwise; the result's confidence is the maximum of the
\* two and never below the original's.
C8_EnhancedKeptOnlyIfBetter ==
    (pc \in {"tracking", "done"} /\ enhanced_retries = 1) =>
        IF enhanced_response.set
        THEN LET o == initial_response.value.confidence_score
                 e == enhanced_response.value.confidence_score
                 better == e.num * o.den > o.num * e.den
             IN  /\ parsed_response.value =
                       IF better THEN enhanced_response.value ELSE initial_response.value
                 /\ Done =>
                       /\ Returned
                       /\ Result.confidence_score = IF better THEN e ELSE o
                       /\ Result.confidence_score.num * o.den >=
                              o.num * Result.confidence_score.den
        ELSE /\ parsed_response.value = initial_response.value
             /\ Done => Returned /\ Result.confidence_score =
                                        initial_response.value.confidence_score

\* equal scores: the original is kept although the responses differ
C8_Witness ==
    /\ Done /\ Returned
    /\ enhanced_response.set
    /\ enhanced_response.value.parsing_errors # initial_response.value.parsing_errors
    /\ enhanced_response.value.confidence_score = initial_response.value.confidence_score
    /\ Result.success = initial_response.value.parsing_success

\* C9: when the parsed response finally used has no test case, the result
\* has success=false and an error_message.
C9_NoTestCasesIsFailure ==
    (Done /\ Returned /\ Result.test_cases = << >>) =>
        /\ ~Result.success
        /\ Result.error_message # None

\* C10: generate_test_cases leaves the request as it was on entry.
C10_RequestUnmodified ==
    /\ request = entry.request
    /\ \A ref \in 1..Len(entry.dicts) : dicts[ref] = entry.dicts[ref]

\* C11: with an overall deadline of 60 s supplied for the generation, once
\* the completed backoff sleeps of a Calling phase add up to more than the
\* deadline the operation has been cancelled: generate_test_cases has returned a failed
\* result carrying a timeout error, and no further attempt is under way.
C11_DeadlineCancelsGeneration ==
    (pc # "sleeping" /\ TotalSlept(sleeps, 1) > 60 * TimeScale) =>
        /\ pc = "done"
        /\ Returned
        /\ ~Result.success
        /\ Result.error_message # None
        /\ Contains(Lower(Result.error_message), "timeout")

AllTasksDone == tasks # << >> /\ \A t \in DOMAIN tasks : tasks[t].pc = "done"

RecordsOfDay(history, day) == {i \in 1..Len(history) : history[i].timestamp = day}

RECURSIVE SumOver(_, _, _)
SumOver(history, indices, field) ==
    IF indices = {} THEN 0
    ELSE LET i == CHOOSE x \in indices : TRUE
         IN  history[i][field] + SumOver(history, indices \ {i}, field)

\* C12: once all the concurrent track_usage calls on the tracker have
\* completed, whatever their interleaving, the history holds exactly one
\* record per call (the records passed), and every day with records has a
\* bucket whose total_requests, total_tokens and total_cost are the count
\* and the sums of the history's records of that day.
C12_NoLostUpdate ==
    AllTasksDone =>
        /\ Len(tracker.history) = Len(tasks)
        /\ \A t \in DOMAIN tasks :
              \E i \in 1..Len(tracker.history) : tracker.history[i] = tasks[t].usage
        /\ DOMAIN tracker.daily =
              {tracker.history[i].timestamp : i \in 1..Len(tracker.history)}
        /\ \A day \in DOMAIN tracker.daily :
              /\ tracker.daily[day].total_requests =
                    Cardinality(RecordsOfDay(tracker.history, day))
              /\ tracker.daily[day].total_tokens =
                    SumOver(tracker.history, RecordsOfDay(tracker.history, day),
                            "total_tokens")
              /\ tracker.daily[day].total_cost =
                    SumOver(tracker.history, RecordsOfDay(tracker.history, day),
                            "estimated_cost")

\* all calls have completed with a redis client configured, two of them on
\* the same day, the later call having started first
C12_Witness ==
    /\ AllTasksDone
    /\ redis.client
    /\ Len(tasks) >= 3
    /\ tracker.history[1] = tasks[3].usage
    /\ tracker.daily[tasks[3].usage.timestamp].total_requests >= 2
    /\ redis.daily # << >>

ReturnedCall(fn) == call.fn = fn /\ call.state = "returned"

\* the keys of the lookup order for a context
LookupOrder(ctx) ==
    << ctx.domain \o "_" \o ctx.generation_type,
       ctx.domain \o "_standard",
       ctx.generation_type,
       "saas_standard" >>

\* C13: after any sequence of add_custom_template calls, get_optimal_template
\* does not fail for any (domain, generation type) and returns the template
\* registered under the first key present in the order '<domain>_<type>',
\* '<domain>_standard', '<type>', 'saas_standard'; the last is always present.
C13_TemplateLookupOrder ==
    /\ "saas_standard" \in DOMAIN templates
    /\ ReturnedCall("get_optimal_template") =>
          /\ ~call.result.raised
          /\ \E i \in 1..4 :
                /\ LookupOrder(call.args)[i] \in DOMAIN templates
                /\ \A k \in 1..(i - 1) : LookupOrder(call.args)[k] \notin DOMAIN templates
                /\ call.result.value = templates[LookupOrder(call.args)[i]]

\* a lookup, after three custom templates were added, that is answered by
\* the template of the generation type
C13_Witness ==
    /\ ReturnedCall("get_optimal_template")
    /\ call.args = [domain |-> "api", generation_type |-> "persona_based"]
    /\ Cardinality(DOMAIN templates) >= 8
    /\ templates["saas_standard"].name = "Custom SaaS"
    /\ call.result.value.name = "Persona-based Test Generation"

\* C14: every ParsedResponse returned by parse_response, whatever the content
\* and however many parsing errors it made, has 0 <= confidence_score <= 1.
C14_ConfidenceWithinUnitInterval ==
    (ReturnedCall("parse_response") /\ ~call.result.raised) =>
        /\ call.result.value.confidence_score.den > 0
        /\ call.result.value.confidence_score.num >= 0
        /\ call.result.value.confidence_score.num <= call.result.value.confidence_score.den

\* a response whose error penalty exceeds the points of the cases it kept
C14_Witness ==
    /\ ReturnedCall("parse_response")
    /\ ~call.result.raised
    /\ Len(call.result.value.test_cases) = 1
    /\ Len(call.result.value.parsing_errors) * 10
          > SumScores(call.result.value.test_cases, 1)
    /\ call.result.value.confidence_score.num = 0

\* C15: every test case in the list the validator returns, from JSON or from
\* text, has the step numbers 1, 2, ..., len(steps) in order and an
\* estimated_duration above 0.
C15_StepsNumberedFromOne ==
    (ReturnedCall("parse_response") /\ ~call.result.raised) =>
        \A i \in 1..Len(call.result.value.test_cases) :
            /\ call.result.value.test_cases[i].estimated_duration > 0
            /\ \A k \in 1..Len(call.result.value.test_cases[i].test_steps) :
                  call.result.value.test_cases[i].test_steps[k].step_number = k

\* a test case object of a payload with every field populated: title,
\* description, at least one step, final expected result, and a valid
\* classification, priority and test type
PopulatedCase(tc) ==
    /\ {"title", "description", "test_steps", "expected_final_result", "classification",
        "priority", "test_type"} \subseteq DOMAIN tc
    /\ tc.title # "" /\ tc.description # "" /\ tc.expected_final_result # ""
    /\ Len(tc.test_steps) >= 1
    /\ \A k \in 1..Len(tc.test_steps) : tc.test_steps[k].kind \in {"dict", "str"}
    /\ tc.classification \in valid_classifications
    /\ tc.priority \in valid_priorities
    /\ tc.test_type \in valid_types
    /\ "estimated_duration" \in DOMAIN tc => tc.estimated_duration.is_int

\* populated so as to earn every point of the confidence score
CompleteCase(tc) ==
    /\ PopulatedCase(tc)
    /\ Len(tc.title) > 5
    /\ Len(tc.description) > 10
    /\ Len(tc.test_steps) >= 6

\* a content that is a JSON payload of N >= 1 test cases, with at most a
\* summary object besides
IsTestCasePayload(content) ==
    /\ content.kind = "text"
    /\ content.json.found
    /\ "test_cases" \in DOMAIN content.json.data
    /\ DOMAIN content.json.data \subseteq {"test_cases", "summary"}
    /\ Len(content.json.data.test_cases) >= 1
    /\ "summary" \in DOMAIN content.json.data => content.json.data.summary.is_dict

PayloadCases(content) == content.json.data.test_cases

PopulatedPayload(content) ==
    /\ IsTestCasePayload(content)
    /\ \A i \in 1..Len(PayloadCases(content)) : PopulatedCase(PayloadCases(content)[i])

CompletePayload(content) ==
    /\ IsTestCasePayload(content)
    /\ \A i \in 1..Len(PayloadCases(content)) : CompleteCase(PayloadCases(content)[i])

\* the parsed response has one test case per case of its payload, no
\* parsing errors, parsing_success and the confidence 1.0
RoundTrips(parsed) ==
    /\ Len(parsed.test_cases) = Len(PayloadCases(parsed.raw_content))
    /\ parsed.parsing_errors = << >>
    /\ parsed.parsing_success
    /\ parsed.confidence_score.num = parsed.confidence_score.den

\* the result has the payload's number of test cases, success and 1.0
ResultRoundTrips(parsed) ==
    /\ Returned
    /\ Len(Result.test_cases) = Len(PayloadCases(parsed.raw_content))
    /\ Result.success
    /\ Result.confidence_score.num = Result.confidence_score.den

\* C16 as claimed: a payload of N >= 1 populated test cases, each with at
\* least one step, is parsed into N test cases without errors and with the
\* confidence 1.0, and a generation whose first completion returns it ends
\* with N test cases, success and the confidence 1.0.
C16_PopulatedPayloadScoresOne ==
    /\ \A r \in {initial_response, enhanced_response} :
          (r.set /\ PopulatedPayload(r.value.raw_content)) => RoundTrips(r.value)
    /\ (Done /\ initial_response.set
           /\ PopulatedPayload(initial_response.value.raw_content)) =>
          ResultRoundTrips(initial_response.value)

\* C16 amended: the same for a payload whose cases each have a title of
\* more than 5 characters, a description of more than 10 and at least six
\* steps.
C16_CompletePayloadScoresOne ==
    /\ \A r \in {initial_response, enhanced_response} :
          (r.set /\ CompletePayload(r.value.raw_content)) => RoundTrips(r.value)
    /\ (Done /\ initial_response.set
           /\ CompletePayload(initial_response.value.raw_content)) =>
          ResultRoundTrips(initial_response.value)

\* a generation that ended on a first completion of three complete cases
C16_Witness ==
    /\ Done /\ Returned
    /\ initial_response.set
    /\ initial_response.value.raw_content = ContentFull
    /\ Len(Result.test_cases) = 3
    /\ Result.success

\* the rates of the claim, in millionths of a dollar per token: 0.01 dollars
\* per 1000 tokens are 10 millionths per token
ClaimedRates(m) ==
    CASE m = "gpt-4"         -> [prompt |-> 30, completion |-> 60]
      [] m = "gpt-3.5-turbo" -> [prompt |-> 1, completion |-> 2]
      [] OTHER               -> [prompt |-> 10, completion |-> 30]

\* C17: the estimated_cost of a TokenUsage is prompt_tokens/1000 times the
\* prompt rate plus completion_tokens/1000 times the completion rate of its
\* model (gpt-4-turbo-preview 0.01/0.03, gpt-4 0.03/0.06, gpt-3.5-turbo
\* 0.001/0.002), a model outside the table having the gpt-4-turbo-preview rates.
C17_CostFormula ==
    ReturnedCall("TokenUsage") =>
        /\ call.result.model = call.args.model
        /\ call.result.estimated_cost =
              call.args.prompt_tokens * ClaimedRates(call.args.model).prompt
              + call.args.completion_tokens * ClaimedRates(call.args.model).completion

\* a record of a model that is not in the table
C17_Witness ==
    /\ ReturnedCall("TokenUsage")
    /\ call.args = [model |-> "gpt-4o", prompt_tokens |-> 1500, completion_tokens |-> 999]
    /\ call.result.estimated_cost = 44970

\* the backoff delay of a sleep before jitter, in seconds, as the claim
\* writes it: min(base * 2^attempt, 60 s)
ClaimedBackoff(sleep) == Min(sleep.base * Pow(2, sleep.attempt), 60)

\* C18: within one Calling phase the pre-jitter backoff delay
\* min(base * 2^attempt, 60 s) of successive retry attempts is non-decreasing
\* (base 1 s for timeout, connection and 5xx errors, base 60 s for rate-limit
\* errors), and the delay slept after jitter is at most 60 s and at least
\* half of the pre-jitter delay.
C18_BackoffNonDecreasing ==
    \A i \in 1..Len(sleeps) :
        /\ sleeps[i].base \in {1, 60}
        /\ sleeps[i].delay <= 60 * TimeScale
        /\ 2 * sleeps[i].delay >= ClaimedBackoff(sleeps[i]) * TimeScale
        /\ i > 1 => /\ sleeps[i].attempt = sleeps[i - 1].attempt + 1
                    /\ ClaimedBackoff(sleeps[i]) >= ClaimedBackoff(sleeps[i - 1])

\* the configured budget scaled as the claim says, before any cap: by 1.5
\* for complex and 0.7 for simple stories, and by 1 + 0.2 * personaCount for
\* persona-based generation with personas
ClaimedScaledBudget(args) ==
    (OPENAI_MAX_TOKENS
       * (CASE args.complexity = "complex" -> 15
            [] args.complexity = "simple"  -> 7
            [] OTHER                      -> 10)
       * (IF args.generation_type = "persona_based" /\ Len(args.personas) > 0
          THEN 10 + 2 * Len(args.personas)
          ELSE 10)) \div 100

\* C19: the max_tokens that _adjust_generation_parameters produces is the
\* configured budget scaled by 1.5 for complex and 0.7 for simple stories and
\* by 1 + 0.2 * personaCount for persona-based generation with personas, and
\* it never exceeds the absolute maximum of 6000, whatever the complexity,
\* generation type and persona count.
C19_MaxTokensCapped ==
    ReturnedCall("_adjust_generation_parameters") =>
        /\ call.result.max_tokens <= 6000
        /\ ClaimedScaledBudget(call.args) <= 6000 =>
              ClaimedScaledBudget(call.args) - call.result.max_tokens \in {0, 1}

\* the fixed order of the domains
DomainOrder == << "ecommerce", "finance", "healthcare", "saas", "mobile", "api" >>

\* the number of keywords of the i-th domain that occur in the description,
\* letter case ignored
KeywordHits(i, description) ==
    Cardinality({kw \in domain_keywords[i].keywords : Contains(Lower(description), kw)})

\* C20: _detect_domain returns the domain whose keyword list has the largest
\* number of keywords occurring as case-insensitive substrings of the
\* description, provided that number is not zero; on a tie it returns the
\* tied domain that comes first in the order ecommerce, finance, healthcare,
\* saas, mobile, api; it returns general if and only if no keyword of any
\* domain occurs.  A description with "checkout" and "payment" and no other
\* keyword yields ecommerce.
C20_DetectDomainHighestScoreFirst ==
    ReturnedCall("_detect_domain") =>
        /\ \A i \in 1..6 : domain_keywords[i].domain = DomainOrder[i]
        /\ call.result \in {DomainOrder[i] : i \in 1..6} \cup {"general"}
        /\ call.result = "general" <=> \A i \in 1..6 : KeywordHits(i, call.args) = 0
        /\ \A i \in 1..6 :
              call.result = DomainOrder[i] =>
                  /\ KeywordHits(i, call.args) > 0
                  /\ \A k \in 1..6 : KeywordHits(k, call.args) <= KeywordHits(i, call.args)
                  /\ \A k \in 1..(i - 1) : KeywordHits(k, call.args) < KeywordHits(i, call.args)
        /\ call.args = "Checkout and payment" => call.result = "ecommerce"

\* the description with "checkout" and "payment": ecommerce has two keywords
\* in it and finance one
C20_Witness ==
    /\ ReturnedCall("_detect_domain")
    /\ call.args = "Checkout and payment"
    /\ KeywordHits(1, call.args) = 2 /\ KeywordHits(2, call.args) = 1
    /\ \A i \in 3..6 : KeywordHits(i, call.args) = 0
    /\ call.result = "ecommerce"

\* the score of the claim in hundredths, from the counts of the request
ClaimedComplexityScore(lines, words, keyword, persona_count, rule_count) ==
      (IF lines > 10 THEN 30 ELSE IF lines > 5 THEN 15 ELSE 0)
    + (IF words > 100 THEN 20 ELSE IF words > 50 THEN 10 ELSE 0)
    + (IF keyword THEN 20 ELSE 0)
    + (IF persona_count > 2 THEN 15 ELSE 0)
    + (IF rule_count > 3 THEN 15 ELSE 0)

ClaimedScoreOf(req) ==
    ClaimedComplexityScore(CountLines(req.acceptance_criteria),
                           CountWords(req.user_story_description, FALSE),
                           \E kw \in {"integrate", "api", "service", "external",
                                       "third-party", "webhook"} :
                               Contains(Lower(req.user_story_description), kw),
                           Len(req.personas), Len(req.business_rules))

\* C21: _estimate_complexity returns complex iff the accumulated score is at
\* least 0.7, medium iff it is at least 0.3 and below 0.7, and simple
\* otherwise; the score is the sum of 0.3 for more than 10 lines of acceptance
\* criteria (0.15 for more than 5), 0.2 for more than 100 words of description
\* (0.1 for more than 50), 0.2 for an integration keyword, 0.15 for more than
\* 2 personas and 0.15 for more than 3 business rules, and never exceeds 1.0.
C21_ComplexityFromScore ==
    ReturnedCall("_estimate_complexity") =>
        /\ ClaimedScoreOf(call.args) <= 100
        /\ call.result = "complex" <=> ClaimedScoreOf(call.args) >= 70
        /\ call.result = "medium" <=>
              (ClaimedScoreOf(call.args) >= 30 /\ ClaimedScoreOf(call.args) < 70)
        /\ call.result = "simple" <=> ClaimedScoreOf(call.args) < 30

\* a request whose score is exactly 0.7: 11 lines, 101 words, a keyword
C21_Witness ==
    /\ ReturnedCall("_estimate_complexity")
    /\ CountLines(call.args.acceptance_criteria) = 11
    /\ CountWords(call.args.user_story_description, FALSE) = 101
    /\ Len(call.args.personas) = 0 /\ Len(call.args.business_rules) = 0
    /\ ClaimedScoreOf(call.args) = 70
    /\ call.result = "complex"

\* the points of one case as the claim awards them
ClaimedCasePoints(tc) ==
      (IF Len(tc.title) > 5 THEN 20 ELSE 0)
    + (IF Len(tc.description) > 10 THEN 15 ELSE 0)
    + (IF Len(tc.test_steps) > 0 THEN Min(30, 5 * Len(tc.test_steps)) ELSE 0)
    + (IF tc.expected_final_result # "" THEN 15 ELSE 0)
    + (IF tc.classification \in {"manual", "api_automation", "ui_automation"} THEN 10 ELSE 0)
    + (IF tc.priority \in {"high", "medium", "low"} THEN 5 ELSE 0)
    + (IF tc.test_type # "" THEN 5 ELSE 0)

\* S: the sum of the points over the cases
RECURSIVE ClaimedPoints(_, _)
ClaimedPoints(test_cases, i) ==
    IF i > Len(test_cases) THEN 0
    ELSE ClaimedCasePoints(test_cases[i]) + ClaimedPoints(test_cases, i + 1)

\* max(0, S - 10 * E) clamped to at most 100 * C
ClaimedNumerator(response) ==
    Min(100 * Len(response.test_cases),
        Max(0, ClaimedPoints(response.test_cases, 1) - 10 * Len(response.parsing_errors)))

\* C22: the confidence score of a parse with at least one validated case is
\* max(0, S - 10 * E) / (100 * C) clamped to [0, 1], with C the number of
\* validated cases, E the number of parsing errors and S the sum over the
\* cases of 20 for a title longer than 5, 15 for a description longer than 10,
\* min(30, 5 * stepCount) for steps, 15 for a final expected result, 10 for a
\* valid classification, 5 for a valid priority and 5 for a test type; with
\* no validated case the score is 0.0 whatever E is.
C22_ConfidenceFormula ==
    (ReturnedCall("parse_response") /\ ~call.result.raised) =>
        IF Len(call.result.value.test_cases) = 0
        THEN call.result.value.confidence_score.num = 0
        ELSE call.result.value.confidence_score.num * 100 * Len(call.result.value.test_cases)
               = ClaimedNumerator(call.result.value) * call.result.value.confidence_score.den

\* a parse that keeps a case and records an error of the validation pass,
\* with a score strictly between 0 and 1
C22_Witness ==
    /\ ReturnedCall("parse_response") /\ ~call.result.raised
    /\ Len(call.result.value.test_cases) >= 2
    /\ Len(call.result.value.parsing_errors) >= 1
    /\ call.result.value.confidence_score.num > 0
    /\ call.result.value.confidence_score.num < call.result.value.confidence_score.den
    /\ ClaimedPoints(call.result.value.test_cases, 1)
          > 10 * Len(call.result.value.parsing_errors)

\* the case at input position n after the coercions of the claim
ClaimedCoerced(tc, n) ==
    [tc EXCEPT
       !.title = IF @ = "" THEN "Test Case " \o ToString(n) ELSE @,
       !.classification = IF @ \in {"manual", "api_automation", "ui_automation"}
                          THEN @ ELSE "manual",
       !.priority = IF @ \in {"high", "medium", "low"} THEN @ ELSE "medium",
       !.test_type = IF @ \in {"functional", "integration", "boundary", "negative",
                                "performance", "security"}
                     THEN @ ELSE "functional",
       !.estimated_duration = IF @ <= 0 THEN 10 ELSE @]

\* the input cases that have a step, coerced, in their input order
RECURSIVE ClaimedKept(_, _)
ClaimedKept(test_cases, n) ==
    IF n > Len(test_cases) THEN << >>
    ELSE (IF Len(test_cases[n].test_steps) > 0
          THEN << ClaimedCoerced(test_cases[n], n) >> ELSE << >>)
         \o ClaimedKept(test_cases, n + 1)

StepErrors(errors) ==
    Cardinality({k \in 1..Len(errors) : Contains(errors[k], "missing test steps")})

\* C23: the validation pass returns exactly the input cases that have at
\* least one step, in their original order; a case without steps is dropped
\* and a parsing error is recorded for it; a retained case with an empty
\* title gets the title "Test Case n" of its 1-based input position;
\* classification, priority and test type outside their closed sets become
\* manual, medium and functional; an estimated duration <= 0 becomes 10.
C23_ValidationKeepsCasesWithSteps ==
    ReturnedCall("_validate_test_cases") =>
        /\ call.result.cases = ClaimedKept(call.args.test_cases, 1)
        /\ StepErrors(call.result.errors)
             = Len(call.args.test_cases) - Len(call.result.cases)
        /\ SubSeq(call.result.errors, 1, Len(call.args.parsing_errors))
             = call.args.parsing_errors

\* a case without steps is dropped in front of a case without a title, and
\* a case with labels outside the closed sets is coerced
C23_Witness ==
    /\ ReturnedCall("_validate_test_cases")
    /\ Len(call.args.test_cases) = 3
    /\ call.args.test_cases[1].test_steps = << >>
    /\ call.args.test_cases[2].title = "" /\ call.args.test_cases[2].test_steps # << >>
    /\ call.args.test_cases[3].classification = "exploratory"
    /\ Len(call.result.cases) = 2
    /\ call.result.cases[1].title = "Test Case 2"
    /\ call.result.cases[2].classification = "manual"
    /\ call.result.cases[2].priority = "medium"
    /\ call.result.cases[2].test_type = "functional"
    /\ StepErrors(call.result.errors) = 1

\* every day with a record in the history, and no other day, has a bucket,
\* whose totals are the count and the sums of the day's records and whose
\* averages are the totals divided by total_requests
BucketsMatchHistory(tr) ==
    /\ DOMAIN tr.daily = {tr.history[i].timestamp : i \in 1..Len(tr.history)}
    /\ \A day \in DOMAIN tr.daily :
          /\ tr.daily[day].total_requests = Cardinality(RecordsOfDay(tr.history, day))
          /\ tr.daily[day].total_tokens =
                SumOver(tr.history, RecordsOfDay(tr.history, day), "total_tokens")
          /\ tr.daily[day].total_cost =
                SumOver(tr.history, RecordsOfDay(tr.history, day), "estimated_cost")
          /\ tr.daily[day].average_tokens_per_request.den > 0
          /\ tr.daily[day].average_tokens_per_request.num * tr.daily[day].total_requests
                = tr.daily[day].total_tokens * tr.daily[day].average_tokens_per_request.den
          /\ tr.daily[day].average_cost_per_request.den > 0
          /\ tr.daily[day].average_cost_per_request.num * tr.daily[day].total_requests
                = tr.daily[day].total_cost * tr.daily[day].average_cost_per_request.den

\* a step that changes the tracker is one track_usage call: its record is
\* appended to the history, no bucket of another day changes, and the
\* buckets match the history afterwards
TrackUsageStep ==
    tracker' # tracker =>
        \E t \in DOMAIN tasks :
            /\ tasks[t].pc = "ready" /\ tasks'[t].pc # "ready"
            /\ tracker'.history = Append(tracker.history, tasks[t].usage)
            /\ \A day \in DOMAIN tracker.daily \ {tasks[t].usage.timestamp} :
                  day \in DOMAIN tracker'.daily /\ tracker'.daily[day] = tracker.daily[day]
            /\ BucketsMatchHistory(tracker')

\* C24: after any sequence of track_usage calls, for every calendar day the
\* bucket of the day exists iff some tracked record has its timestamp on that
\* day, and then its total_requests is the number of tracked records of the
\* day, its total_tokens and total_cost are the sums over those records and
\* its averages are the totals divided by total_requests; tracking a record
\* changes no bucket but that of its day, and the history holds every
\* tracked record in call order.
C24_BucketsFollowRecords == [][TrackUsageStep]_vars

\* records of two days have been tracked, two of them on the same day
C24_Witness ==
    /\ Len(tracker.history) = 3
    /\ Cardinality(DOMAIN tracker.daily) = 2
    /\ \E day \in DOMAIN tracker.daily :
          /\ tracker.daily[day].total_requests = 2
          /\ tracker.daily[day].average_tokens_per_request.den = 2
    /\ BucketsMatchHistory(tracker)

\* the calls and sleeps of an invocation stay within two Calling phases of
\* max_retries + 1 calls and max_retries sleeps each, and a sleep is always
\* followed by a further attempt of its phase
CallsAndSleepsBounded ==
    /\ api_calls <= 2 * (max_retries + 1) /\ api_calls <= 8
    /\ backoff_sleeps <= 2 * max_retries /\ backoff_sleeps <= 6
    /\ \A i \in 1..Len(sleeps) : sleeps[i].attempt < max_retries
    /\ pc = "sleeping" => attempt < max_retries /\ Len(api_log) <= max_retries
    /\ (pc = "done" /\ Len(api_log) = max_retries + 1) => Len(sleeps) = max_retries

\* an upper bound of the steps an invocation has left before it returns:
\* two per remaining attempt of the Calling phase (the call and its sleep),
\* then parsing, the enhanced phase, its parsing, and tracking
StepsLeft ==
    CASE pc = "done"        -> 0
      [] pc = "tracking"    -> 1
      [] pc = "enh_parsing" -> 2
      [] pc = "parsing"     -> 11
      [] pc = "idle"        -> 20
      [] OTHER -> (IF phase = "enhanced" THEN 2 ELSE 11)
                  + 2 * (4 - attempt) - (IF pc = "sleeping" THEN 1 ELSE 0)

\* an invocation that has not returned is at a point from which a step is
\* possible: it awaits a completion call or a sleep, which returns, or its
\* code runs on with the values it needs; it has returned a result or an
\* exception exactly when it is done
CanGoOn ==
    /\ StepsLeft >= 0
    /\ pc \in {"idle", "calling", "sleeping", "parsing", "enh_parsing", "tracking", "done"}
    /\ pc \in {"calling", "sleeping"} => phase \in {"first", "enhanced"} /\ attempt < 4
    /\ pc = "parsing" => raw_response # NoContent /\ token_usage.set
    /\ pc = "enh_parsing" =>
          raw_response # NoContent /\ enhanced_usage.set /\ parsed_response.set
    /\ pc = "tracking" => token_usage.set /\ parsed_response.set
    /\ pc = "done" <=> returned.kind # "pending"

\* C25: when every completion call and every backoff sleep returns, every
\* generate_test_cases invocation returns (every step brings it nearer to
\* its return and a step is possible until then), after at most
\* 2 * (max_retries + 1) = 8 completion calls and at most 2 * max_retries = 6
\* backoff sleeps in all (the first Calling phase and at most one enhanced
\* one), and no sleep follows the last failed attempt of a Calling phase.
C25_InvocationReturns ==
    /\ [](CanGoOn /\ CallsAndSleepsBounded)
    /\ [][StepsLeft' < StepsLeft]_vars

\* the invocation has returned after 8 calls and 6 sleeps: three failures
\* and a completion in the first phase, four failures in the enhanced one
C25_Witness ==
    /\ pc = "done" /\ returned.kind = "result"
    /\ api_calls = 8 /\ backoff_sleeps = 6
    /\ completed_calls = 1 /\ enhanced_retries = 1
    /\ phase = "enhanced" /\ Len(api_log) = 4 /\ Len(sleeps) = 3

\* the enhanced retry failed in its Calling phase or in prompt rendering
EnhancedRetryFailed ==
    \E i \in 1..Len(failures) :
        failures[i].phase = "enhanced" /\ failures[i].stage \in {"calling", "rendering"}

\* C26: a failure inside the enhanced retry (its Calling phase exhausts its
\* retries or meets a client error, or prompt rendering raises) is not
\* surfaced to the caller: generate_test_cases builds its result from the
\* original parsed response, with error_message null and success equal to
\* the original response's parsing_success, and exactly one TokenUsage
\* record, that of the original call, is tracked.
C26_EnhancedFailureNotSurfaced ==
    (pc = "done" /\ EnhancedRetryFailed) =>
        /\ returned.kind = "result"
        /\ initial_response.set /\ token_usage.set
        /\ returned.value.test_cases =
              _convert_parsed_test_cases(initial_response.value.test_cases)
        /\ returned.value.confidence_score = initial_response.value.confidence_score
        /\ returned.value.quality_score = initial_response.value.confidence_score
        /\ returned.value.error_message = None
        /\ returned.value.success = initial_response.value.parsing_success
        /\ returned.value.token_usage = token_usage.value
        /\ tracked = << token_usage.value >>
        /\ tracker.history = << token_usage.value >>

\* the enhanced Calling phase ended on a client error after the original
\* response had parsed without errors: the caller gets a success
C26_Witness ==
    /\ pc = "done" /\ returned.kind = "result"
    /\ \E i \in 1..Len(failures) :
          /\ failures[i].phase = "enhanced" /\ failures[i].stage = "calling"
          /\ failures[i].exception.status_code = 400
    /\ returned.value.success /\ returned.value.error_message = None
    /\ Len(returned.value.test_cases) >= 1
    /\ Len(tracked) = 1 /\ api_calls = 2 /\ completed_calls = 1

\* the first Calling phase failed: its retries were exhausted or it met an
\* error that is not retried
FirstCallingFailed ==
    \E i \in 1..Len(failures) :
        failures[i].phase = "first" /\ failures[i].stage = "calling"

\* C27: when the first Calling phase of a generation fails (retries
\* exhausted or an error that is not retried), the generation leaves the
\* tracker as it was: no TokenUsage is appended to the history and no day
\* bucket is created or updated, so failed attempts do not count as requests.
C27_FailedGenerationLeavesTracker ==
    /\ (phase = "first" /\ pc \in {"calling", "sleeping"}) =>
          tracker.history = << >> /\ DOMAIN tracker.daily = {}
    /\ FirstCallingFailed =>
          /\ pc = "done" /\ returned.kind = "result" /\ ~returned.value.success
          /\ tracked = << >>
          /\ tracker.history = << >>
          /\ DOMAIN tracker.daily = {}
          /\ redis = NoRedis

\* the first Calling phase made its four calls, all failed
C27_Witness ==
    /\ FirstCallingFailed
    /\ pc = "done"
    /\ api_calls = 4 /\ backoff_sleeps = 3 /\ completed_calls = 0
    /\ tracker.history = << >> /\ DOMAIN tracker.daily = {}

\* the invocation returned the result built from a parsed response
BuiltResult == pc = "done" /\ returned.kind = "result" /\ returned.value.error_message = None

\* C28: the token_usage of a successful GenerationResult is always the usage
\* record of the first (original) completion call, also when the quality
\* gate fired and the enhanced response is the one kept; the usage of the
\* enhanced call is recorded in the tracker only, where it is tracked before
\* the usage of the original call.
C28_ResultCarriesFirstUsage ==
    BuiltResult =>
        /\ token_usage.set
        /\ returned.value.token_usage = token_usage.value
        /\ returned.value.token_usage.request_id = "chatcmpl-first"
        /\ enhanced_usage.set => returned.value.token_usage # enhanced_usage.value
        /\ IF enhanced_response.set
           THEN /\ tracked = << enhanced_usage.value, token_usage.value >>
                /\ tracker.history = << enhanced_usage.value, token_usage.value >>
           ELSE /\ tracked = << token_usage.value >>
                /\ tracker.history = << token_usage.value >>

\* the enhanced response was kept and the result is a success
C28_Witness ==
    /\ BuiltResult
    /\ returned.value.success
    /\ enhanced_response.set
    /\ parsed_response = enhanced_response
    /\ parsed_response # initial_response
    /\ returned.value.confidence_score = enhanced_response.value.confidence_score
    /\ tracked[1].request_id = "chatcmpl-enhanced"
    /\ returned.value.token_usage.request_id = "chatcmpl-first"

\* the parsed response of a completion that holds persona_test_cases only
PersonaOnly(response) == response.set /\ response.value.raw_content = ContentPersonaOnly

\* C29: the confidence score is computed from the top-level test_cases list
\* and the parsing errors only: persona-grouped cases bypass the validation
\* pass and add nothing to the score, so a response that holds only
\* persona_test_cases, however complete, has confidence 0.0; with a quality
\* threshold above 0 such a first response always triggers the enhanced
\* retry, and an enhanced response that is persona-only again is never kept.
C29_PersonaOnlyScoresZero ==
    /\ \A response \in {initial_response, enhanced_response} :
          PersonaOnly(response) =>
              /\ response.value.test_cases = << >>
              /\ Len(response.value.persona_test_cases) = 2
              /\ Len(response.value.persona_test_cases[1].cases) = 2
              /\ Len(response.value.persona_test_cases[2].cases) = 1
              /\ response.value.persona_test_cases[2].cases[1].test_steps = << >>
              /\ response.value.parsing_errors = << >>
              /\ response.value.confidence_score.num = 0
    /\ (PersonaOnly(initial_response) /\ request.quality_threshold > 0) =>
          enhanced_retries = 1
    /\ (PersonaOnly(enhanced_response) /\ pc \in {"tracking", "done"}) =>
          /\ parsed_response = initial_response
          /\ pc = "done" =>
                /\ returned.kind = "result"
                /\ returned.value.confidence_score = initial_response.value.confidence_score

\* both the first and the enhanced response held persona groups only: the
\* result is a success with confidence 0 and no top-level test case
C29_Witness ==
    /\ pc = "done" /\ returned.kind = "result"
    /\ PersonaOnly(initial_response) /\ PersonaOnly(enhanced_response)
    /\ enhanced_retries = 1
    /\ returned.value.confidence_score.num = 0
    /\ returned.value.test_cases = << >>
    /\ Len(returned.value.persona_test_cases) = 2
    /\ returned.value.success

\* the domains that have a '<domain>_standard' template in the default
\* registry, with the name of that template
StandardTemplateName(domain) ==
    CASE domain = "ecommerce"  -> "E-commerce Standard Test Generation"
      [] domain = "finance"    -> "Finance Standard Test Generation"
      [] domain = "healthcare" -> "Healthcare Standard Test Generation"
      [] domain = "saas"       -> "SaaS Standard Test Generation"
      [] OTHER                 -> None

\* the names of the templates registered under a generation type
TypeTemplateName(generation_type) ==
    CASE generation_type = "persona_based"     -> "Persona-based Test Generation"
      [] generation_type = "edge_case_focused" -> "Edge Case Focused Test Generation"
      [] OTHER                                 -> None

\* C30: with the default template registry, for a domain that has a
\* '<domain>_standard' template (ecommerce, finance, healthcare, saas) a
\* context of generation type persona_based or edge_case_focused selects the
\* domain's standard template and never the template of the generation type;
\* the 'persona_based' and 'edge_case_focused' templates are selected only
\* for the domains without a standard template (mobile, api, general), and
\* 'saas_standard' is returned for those domains with any other generation
\* type.
C30_DomainStandardBeforeType ==
    (ReturnedCall("get_optimal_template") /\ templates = DefaultTemplates) =>
        /\ ~call.result.raised
        /\ call.args.domain \in {"ecommerce", "finance", "healthcare", "saas"} =>
              /\ call.result.value.name = StandardTemplateName(call.args.domain)
              /\ call.result.value.generation_type = "standard"
        /\ call.result.value.name \in {"Persona-based Test Generation",
                                       "Edge Case Focused Test Generation"} =>
              /\ call.args.domain \in {"mobile", "api", "general"}
              /\ call.result.value.name = TypeTemplateName(call.args.generation_type)
        /\ call.args.domain \in {"mobile", "api", "general"} =>
              call.result.value.name =
                  IF call.args.generation_type \in {"persona_based", "edge_case_focused"}
                  THEN TypeTemplateName(call.args.generation_type)
                  ELSE "SaaS Standard Test Generation"

\* a persona-based context of a domain with a standard template
C30_Witness ==
    /\ ReturnedCall("get_optimal_template")
    /\ templates = DefaultTemplates
    /\ call.args = [domain |-> "finance", generation_type |-> "persona_based"]
    /\ call.result.value.name = "Finance Standard Test Generation"
    /\ call.result.value.generation_type = "standard"

====
